---- MODULE Spec2Model ----
(***************************************************************************)
(* A model of the altostratus rendering core: the depth buffer, the        *)
(* camera's validated mutators, the projector and the two rasterizers.     *)
(*                                                                         *)
(* f32 values are modelled as exact extended rationals <<n, d>> in lowest  *)
(* terms with d >= 0: d > 0 is the finite value n/d, <<1,0>> and <<-1,0>>  *)
(* are the infinities and <<0,0>> is NaN.  Rounding of f32 arithmetic is   *)
(* not modelled.  Angles are kept in units of pi (fov = 1/4 is pi/4).      *)
(***************************************************************************)
EXTENDS Integers, Sequences, FiniteSets, TLC

VARIABLES
    db,        \* a stand-alone DepthBuffer: [width, height, depths]
    offered,   \* history: per cell, the least depth offered in bounds since the last new/clear/resize
    cam,       \* a Camera: [position, target, up, fov, aspect_ratio, near, far]
    proj,      \* a Projector and its last call: [projector, world_pos, clip, result]
    ascii,     \* an AsciiRenderer
    image,     \* an ImageRenderer
    out,       \* the value returned by the last call, if it returns one
    steps,     \* calls counted against a bound: zooms since the camera was posed, depths offered since the buffer was reset
    last,      \* the last operation: [op, ok, args]
    viewer     \* the terminal viewer (graphics.rs, main.rs): its Screen, Camera, PointCloud, CommandState

vars == <<db, offered, cam, proj, ascii, image, out, steps, last, viewer>>

----------------------------------------------------------------------------
(* Extended rational arithmetic (the model of f32).                        *)

Abs(n) == IF n < 0 THEN -n ELSE n

Sgn(n) == IF n < 0 THEN -1 ELSE IF n > 0 THEN 1 ELSE 0

RECURSIVE GCD(_, _)
GCD(a, b) == IF b = 0 THEN a ELSE GCD(b, a % b)

RNorm(n, d) ==
    IF d = 0 THEN <<Sgn(n), 0>>
    ELSE LET g == GCD(Abs(n), Abs(d))
             s == IF d < 0 THEN -1 ELSE 1
         IN  <<(s * n) \div g, (s * d) \div g>>

R(n) == <<n, 1>>

NaN == <<0, 0>>

IsNaN(a) == a = NaN

IsFinite(a) == a[2] > 0

RNeg(a) == <<-a[1], a[2]>>

RAdd(a, b) ==
    IF a[2] = 0 /\ b[2] = 0 THEN (IF a = b THEN a ELSE NaN)
    ELSE IF a[2] = 0 THEN a
    ELSE IF b[2] = 0 THEN b
    ELSE IF a[1] = 0 THEN b
    ELSE IF b[1] = 0 THEN a
    ELSE LET g == GCD(a[2], b[2])
         IN  RNorm(a[1] * (b[2] \div g) + b[1] * (a[2] \div g), (a[2] \div g) * b[2])

RSub(a, b) == RAdd(a, RNeg(b))

RMul(a, b) ==
    IF a[2] = 0 \/ b[2] = 0 THEN RNorm(a[1] * b[1], 0)
    ELSE IF a[1] = 0 \/ b[1] = 0 THEN <<0, 1>>
    ELSE LET g1 == GCD(Abs(a[1]), b[2])
             g2 == GCD(Abs(b[1]), a[2])
         IN  RNorm((a[1] \div g1) * (b[1] \div g2), (a[2] \div g2) * (b[2] \div g1))

RRecip(a) == IF a[1] < 0 THEN <<-a[2], -a[1]>> ELSE <<a[2], a[1]>>

RDiv(a, b) == RMul(a, RRecip(b))

\* IEEE comparisons: every comparison with NaN is false.
\* n1/d1 < n2/d2 for positive denominators, by integer parts and then the
\* reciprocals of the fractional parts (no product is formed)
RECURSIVE FracLt(_, _, _, _)
FracLt(n1, d1, n2, d2) ==
    IF n1 \div d1 # n2 \div d2 THEN n1 \div d1 < n2 \div d2
    ELSE IF n2 % d2 = 0 THEN FALSE
    ELSE IF n1 % d1 = 0 THEN TRUE
    ELSE FracLt(d2, n2 % d2, d1, n1 % d1)

RLt(a, b) ==
    /\ ~IsNaN(a)
    /\ ~IsNaN(b)
    /\ IF a[2] = 0 /\ b[2] = 0 THEN a[1] < b[1]
       ELSE IF a[2] = 0 \/ b[2] = 0 THEN a[1] * b[2] < b[1] * a[2]
       ELSE FracLt(a[1], a[2], b[1], b[2])

RLe(a, b) == ~IsNaN(a) /\ ~IsNaN(b) /\ (a = b \/ RLt(a, b))

RGt(a, b) == RLt(b, a)

RGe(a, b) == RLe(b, a)

RAbs(a) == IF a[1] < 0 THEN <<-a[1], a[2]>> ELSE a

RMax(a, b) == IF IsNaN(a) THEN b ELSE IF IsNaN(b) THEN a ELSE IF RLt(a, b) THEN b ELSE a

RMin(a, b) == IF IsNaN(a) THEN b ELSE IF IsNaN(b) THEN a ELSE IF RLt(b, a) THEN b ELSE a

\* floor of the square root of a natural number, by bisection
RECURSIVE ISqrtBetween(_, _, _)
ISqrtBetween(n, lo, hi) ==
    IF lo >= hi THEN lo
    ELSE LET mid == (lo + hi + 1) \div 2
         IN  IF mid * mid <= n THEN ISqrtBetween(n, mid, hi) ELSE ISqrtBetween(n, lo, mid - 1)

ISqrt(n) == ISqrtBetween(n, 0, IF n < 46340 THEN n ELSE 46340)

\* f32::sqrt: exact on the squares of rationals, NaN below zero
RSqrt(a) ==
    IF IsNaN(a) \/ a[1] < 0 THEN NaN
    ELSE IF a[2] = 0 THEN a
    ELSE RNorm(ISqrt(a[1]), ISqrt(a[2]))

IsSquare(a) == IsFinite(a) /\ a[1] >= 0 /\ ISqrt(a[1]) * ISqrt(a[1]) = a[1] /\ ISqrt(a[2]) * ISqrt(a[2]) = a[2]

----------------------------------------------------------------------------
(* Bounds and input sets.                                                  *)

\* Largest buffer / viewport dimension tried (coordinates go one beyond it).
MaxDim == 2

Dims == 0..MaxDim

Coords == 0..MaxDim

\* Depths offered to a buffer directly: 0, 1/2, 1 (the far plane), 3/2.
DepthInputs == {<<0, 1>>, <<1, 2>>, <<1, 1>>, <<3, 2>>}

FAR == <<1, 1>>

----------------------------------------------------------------------------
(* DepthBuffer (renderer.rs).                                              *)

Fill(n, v) == [i \in 1..n |-> v]

\* Vec::resize(new_len, value): truncate, or extend with value.
VecResize(s, n, v) == [i \in 1..n |-> IF i <= Len(s) THEN s[i] ELSE v]

DepthBuffer_new(w, h) == [width |-> w, height |-> h, depths |-> Fill(w * h, FAR)]

DepthBuffer_clear_Skipped(b) == b

DepthBuffer_clear(b) == [b EXCEPT !.depths = Fill(Len(b.depths), FAR)]

DepthBuffer_resize_ok(w, h) == ~(w = 0 \/ h = 0)

DepthBuffer_resize_NoClear(b, w, h) ==
    IF w = 0 \/ h = 0 THEN b
    ELSE [width |-> w, height |-> h, depths |-> VecResize(b.depths, w * h, FAR)]

DepthBuffer_resize(b, w, h) ==
    IF ~DepthBuffer_resize_ok(w, h) THEN b
    ELSE DepthBuffer_clear([width |-> w, height |-> h,
                            depths |-> VecResize(b.depths, w * h, FAR)])

\* index = y * width + x, as a 1-based sequence index
CellIndex(b, x, y) == y * b.width + x + 1

InBounds(b, x, y) == ~(x >= b.width \/ y >= b.height)

DepthTestFlipped(depth, stored) == RLe(depth, stored)

DepthTest(depth, stored) == RLt(depth, stored)

DepthBuffer_test(b, x, y, depth) ==
    InBounds(b, x, y) /\ DepthTest(depth, b.depths[CellIndex(b, x, y)])

DepthBuffer_test_and_update(b, x, y, depth) ==
    IF DepthBuffer_test(b, x, y, depth)
    THEN [b EXCEPT !.depths[CellIndex(b, x, y)] = depth]
    ELSE b

DepthBuffer_get_depth(b, x, y) == b.depths[CellIndex(b, x, y)]

----------------------------------------------------------------------------
(* glam::Vec3 over the rationals.                                          *)

V3(x, y, z) == <<R(x), R(y), R(z)>>

VAdd(a, b) == <<RAdd(a[1], b[1]), RAdd(a[2], b[2]), RAdd(a[3], b[3])>>

VSub(a, b) == <<RSub(a[1], b[1]), RSub(a[2], b[2]), RSub(a[3], b[3])>>

VScale(a, k) == <<RMul(a[1], k), RMul(a[2], k), RMul(a[3], k)>>

LCM(a, b) == (a \div GCD(a, b)) * b

VLengthSquared(a) == RAdd(RAdd(RMul(a[1], a[1]), RMul(a[2], a[2])), RMul(a[3], a[3]))

\* A finite vector as (g / l) * (k1, k2, k3) with coprime integers k: <<g, l, k1*k1 + k2*k2 + k3*k3>>
VReduced(a) ==
    LET l == LCM(LCM(a[1][2], a[2][2]), a[3][2])
        n1 == a[1][1] * (l \div a[1][2])
        n2 == a[2][1] * (l \div a[2][2])
        n3 == a[3][1] * (l \div a[3][2])
        g == GCD(GCD(Abs(n1), Abs(n2)), Abs(n3))
    IN  IF g = 0 THEN <<0, 1, 0>>
        ELSE <<g, l, (n1 \div g) * (n1 \div g) + (n2 \div g) * (n2 \div g)
                      + (n3 \div g) * (n3 \div g)>>

\* Vec3::length = sqrt(x*x + y*y + z*z).  For finite components the common
\* factor g/l is taken out of the root first, which keeps the integers small
\* and leaves the value unchanged.
VLength(a) ==
    IF ~(IsFinite(a[1]) /\ IsFinite(a[2]) /\ IsFinite(a[3])) THEN RSqrt(VLengthSquared(a))
    ELSE LET r == VReduced(a) IN RMul(RNorm(r[1], r[2]), RSqrt(R(r[3])))

\* Vec3::normalize: self * (1 / length); the zero vector gives NaN components
VNormalize(a) == VScale(a, RRecip(VLength(a)))

VFinite(a) == IsFinite(a[1]) /\ IsFinite(a[2]) /\ IsFinite(a[3])

----------------------------------------------------------------------------
(* Camera (camera.rs).  Angles are in units of pi.                         *)

PI == <<1, 1>>

\* f32::to_radians: degrees * (pi / 180)
ToRadians(deg) == RDiv(deg, R(180))

\* f32::tan on the half angles the model reaches (angle in units of pi);
\* irrational values are replaced by nearby rationals.
Tan(a) ==
    CASE a = <<0, 1>>  -> <<0, 1>>
      [] a = <<1, 8>>  -> <<5, 12>>
      [] a = <<1, 6>>  -> <<4, 7>>
      [] a = <<1, 4>>  -> <<1, 1>>
      [] a = <<1, 3>>  -> <<7, 4>>
      [] a = <<-1, 4>> -> <<-1, 1>>
      [] a = <<3, 4>>  -> <<-1, 1>>
      [] OTHER         -> NaN

Camera_new ==
    [position |-> V3(0, 0, 5), target |-> V3(0, 0, 0), up |-> V3(0, 1, 0),
     fov |-> RDiv(PI, R(4)), aspect_ratio |-> R(1), near |-> <<1, 10>>, far |-> R(100)]

Camera_look_at(position, target) ==
    [Camera_new EXCEPT !.position = position, !.target = target]

Camera_with_perspective(fov_degrees, aspect_ratio) ==
    [Camera_new EXCEPT !.fov = ToRadians(fov_degrees), !.aspect_ratio = aspect_ratio]

FovDegreesInRangeClosed(fov_degrees) == ~(RLt(fov_degrees, R(0)) \/ RGt(fov_degrees, R(180)))

FovDegreesInRange(fov_degrees) == ~(RLe(fov_degrees, R(0)) \/ RGe(fov_degrees, R(180)))

Camera_set_fov_degrees(c, fov_degrees) ==
    IF FovDegreesInRange(fov_degrees) THEN [c EXCEPT !.fov = ToRadians(fov_degrees)] ELSE c

FovRadiansInRange(fov_radians) == ~(RLe(fov_radians, R(0)) \/ RGe(fov_radians, PI))

Camera_set_fov_radians(c, fov_radians) ==
    IF FovRadiansInRange(fov_radians) THEN [c EXCEPT !.fov = fov_radians] ELSE c

AspectInRange(aspect_ratio) == ~RLe(aspect_ratio, R(0))

Camera_set_aspect_ratio(c, aspect_ratio) ==
    IF AspectInRange(aspect_ratio) THEN [c EXCEPT !.aspect_ratio = aspect_ratio] ELSE c

ClippingInRange(near, far) == ~RLe(near, R(0)) /\ ~RLe(far, near)

Camera_set_clipping_planes(c, near, far) ==
    IF ClippingInRange(near, far) THEN [c EXCEPT !.near = near, !.far = far] ELSE c

Camera_distance_to_target(c) == VLength(VSub(c.target, c.position))

MIN_ZOOM_DISTANCE == <<1, 1000>>

ZoomAllowedNoFloor(c, factor) == ~RLe(factor, R(0))

ZoomAllowed(c, factor) ==
    /\ ~RLe(factor, R(0))
    /\ ~RLt(RDiv(Camera_distance_to_target(c), factor), MIN_ZOOM_DISTANCE)

Camera_zoom_NoNormalize(c, factor) ==
    IF ~ZoomAllowed(c, factor) THEN c
    ELSE LET direction == VSub(c.target, c.position)
             new_distance == RDiv(VLength(direction), factor)
         IN  [c EXCEPT !.position = VSub(c.target, VScale(direction, new_distance))]

Camera_zoom(c, factor) ==
    IF ~ZoomAllowed(c, factor) THEN c
    ELSE LET direction == VSub(c.target, c.position)
             distance == VLength(direction)
             new_distance == RDiv(distance, factor)
             new_direction == VScale(VNormalize(direction), new_distance)
         IN  [c EXCEPT !.position = VSub(c.target, new_direction)]

BoxMaxExtent(min, max) ==
    LET size == VSub(max, min) IN RMax(RMax(size[1], size[2]), size[3])

FrameAllowed(min, max) == ~RLe(BoxMaxExtent(min, max), R(0))

FrameDistance(c, max_extent) ==
    RAdd(RDiv(RMul(max_extent, <<1, 2>>), Tan(RMul(c.fov, <<1, 2>>))),
         RMul(max_extent, <<1, 10>>))

Camera_frame_bounding_box(c, min, max) ==
    IF ~FrameAllowed(min, max) THEN c
    ELSE LET center == VScale(VAdd(min, max), <<1, 2>>)
             max_extent == BoxMaxExtent(min, max)
             direction == VNormalize(VSub(c.position, c.target))
         IN  [c EXCEPT !.target = center,
                       !.position = VAdd(center, VScale(direction, FrameDistance(c, max_extent)))]

----------------------------------------------------------------------------
(* View-projection (camera.rs view_projection_matrix) and Projector        *)
(* (renderer.rs).                                                          *)

VDot(a, b) == RAdd(RAdd(RMul(a[1], b[1]), RMul(a[2], b[2])), RMul(a[3], b[3]))

VCross(a, b) ==
    <<RSub(RMul(a[2], b[3]), RMul(a[3], b[2])),
      RSub(RMul(a[3], b[1]), RMul(a[1], b[3])),
      RSub(RMul(a[1], b[2]), RMul(a[2], b[1]))>>

\* A Mat4 is the sequence of its four rows.
Mat4Entry(a, b, i, j) ==
    RAdd(RAdd(RAdd(RMul(a[i][1], b[1][j]), RMul(a[i][2], b[2][j])),
              RMul(a[i][3], b[3][j])),
         RMul(a[i][4], b[4][j]))

\* Mat4 * Mat4
Mat4Mul(a, b) == [i \in 1..4 |-> [j \in 1..4 |-> Mat4Entry(a, b, i, j)]]

\* Mat4 * Vec4
Mat4MulVec(a, v) ==
    [i \in 1..4 |->
        RAdd(RAdd(RAdd(RMul(a[i][1], v[1]), RMul(a[i][2], v[2])), RMul(a[i][3], v[3])),
             RMul(a[i][4], v[4]))]

\* Mat4::look_at_rh(eye, center, up) from its basis f, s, u
ViewRows(eye, f, s, u) ==
    << <<s[1], s[2], s[3], RNeg(VDot(eye, s))>>,
       <<u[1], u[2], u[3], RNeg(VDot(eye, u))>>,
       <<RNeg(f[1]), RNeg(f[2]), RNeg(f[3]), VDot(eye, f)>>,
       <<R(0), R(0), R(0), R(1)>> >>

ViewRowsFrom(eye, f, s) == ViewRows(eye, f, s, VCross(s, f))

Mat4_look_at_rh(eye, center, up) ==
    ViewRowsFrom(eye, VNormalize(VSub(center, eye)),
                 VNormalize(VCross(VNormalize(VSub(center, eye)), up)))

\* Mat4::perspective_rh(fov, aspect_ratio, near, far) from h = 1 / tan(fov / 2)
PerspectiveRows(h, aspect_ratio, near, r) ==
    << <<RDiv(h, aspect_ratio), R(0), R(0), R(0)>>,
       <<R(0), h, R(0), R(0)>>,
       <<R(0), R(0), r, RMul(r, near)>>,
       <<R(0), R(0), R(-1), R(0)>> >>

Mat4_perspective_rh(fov, aspect_ratio, near, far) ==
    PerspectiveRows(RRecip(Tan(RMul(fov, <<1, 2>>))), aspect_ratio, near,
                    RDiv(far, RSub(near, far)))

Camera_view_matrix(c) == Mat4_look_at_rh(c.position, c.target, c.up)

Camera_projection_matrix(c) == Mat4_perspective_rh(c.fov, c.aspect_ratio, c.near, c.far)

Camera_view_projection_matrix(c) ==
    Mat4Mul(Camera_projection_matrix(c), Camera_view_matrix(c))

\* clip_pos = view_proj * (x, y, z, 1)
ClipPos(c, world_pos) ==
    Mat4MulVec(Camera_view_projection_matrix(c),
               <<world_pos[1], world_pos[2], world_pos[3], R(1)>>)

NoPoint == [some |-> FALSE, x |-> R(0), y |-> R(0), depth |-> R(0)]

Projector_new(w, h) == [viewport_width |-> w, viewport_height |-> h]

Projector_set_viewport(pr, w, h) ==
    IF w = 0 \/ h = 0 THEN pr ELSE [viewport_width |-> w, viewport_height |-> h]

BehindCamera(clip) == RLe(clip[4], R(0))

OutsideNdc(ndc_x, ndc_y, ndc_z) ==
    \/ RLt(ndc_x, R(-1)) \/ RGt(ndc_x, R(1))
    \/ RLt(ndc_y, R(-1)) \/ RGt(ndc_y, R(1))
    \/ RLt(ndc_z, R(0)) \/ RGt(ndc_z, R(1))

\* project_point after the matrix product: clip is clip_pos
ProjectClip(pr, clip) ==
    IF BehindCamera(clip) THEN NoPoint
    ELSE LET ndc_x == RDiv(clip[1], clip[4])
             ndc_y == RDiv(clip[2], clip[4])
             ndc_z == RDiv(clip[3], clip[4])
         IN  IF OutsideNdc(ndc_x, ndc_y, ndc_z) THEN NoPoint
             ELSE [some |-> TRUE,
                   x |-> RMul(RMul(RAdd(ndc_x, R(1)), <<1, 2>>), R(pr.viewport_width)),
                   y |-> RMul(RMul(RSub(R(1), ndc_y), <<1, 2>>), R(pr.viewport_height)),
                   depth |-> ndc_z]

\* project_point with the camera's view-projection matrix already formed
ProjectWith(pr, world_pos, view_proj) ==
    ProjectClip(pr, Mat4MulVec(view_proj,
                               <<world_pos[1], world_pos[2], world_pos[3], R(1)>>))

Projector_project_point(pr, world_pos, c) ==
    ProjectWith(pr, world_pos, Camera_view_projection_matrix(c))

----------------------------------------------------------------------------
(* Colors, points and clouds (lib.rs); float to integer conversions.       *)

Color(r, g, b) == [r |-> r, g |-> g, b |-> b]

RED == Color(255, 0, 0)

GREEN == Color(0, 255, 0)

BLUE == Color(0, 0, 255)

WHITE == Color(255, 255, 255)

BLACK == Color(0, 0, 0)

Point3D(position, color) == [position |-> position, color |-> color]

\* f32::ceil of a finite value, as an integer
RCeil(a) == -((-a[1]) \div a[2])

\* f32 `as i32` of a finite value or NaN: truncation toward zero, NaN gives 0
AsI32(a) == IF a[2] = 0 THEN 0 ELSE IF a[1] >= 0 THEN a[1] \div a[2] ELSE RCeil(a)

\* f32 `as u32` / `as usize` / `as u8` of a finite value or NaN: truncation
\* toward zero, negative values and NaN give 0
AsU32(a) == IF a[2] = 0 \/ a[1] < 0 THEN 0 ELSE a[1] \div a[2]

\* usize::max
UsizeMax(a, b) == IF a < b THEN b ELSE a

\* f32::round: half away from zero; NaN and the infinities are kept
RRound(a) ==
    IF a[2] = 0 THEN a
    ELSE IF a[1] >= 0 THEN R((2 * a[1] + a[2]) \div (2 * a[2]))
    ELSE R(-((2 * (-a[1]) + a[2]) \div (2 * a[2])))

\* f32::round of a finite value, as an integer
RoundedInt(a) == RRound(a)[1]

\* f32::clamp(min, max)
RClamp(a, min, max) == IF RLt(a, min) THEN min ELSE IF RGt(a, max) THEN max ELSE a

ScreenPoint_to_pixel_coords(sp, width, height) ==
    <<AsU32(RClamp(sp.x, R(0), RSub(R(width), R(1)))),
      AsU32(RClamp(sp.y, R(0), RSub(R(height), R(1))))>>

\* filter_map over the cloud: the (point, screen point) pairs of the accepted points
ProjectCloudWith(pr, points, view_proj) ==
    SelectSeq([i \in 1..Len(points) |->
                  [point |-> points[i],
                   screen |-> ProjectWith(pr, points[i].position, view_proj)]],
              LAMBDA e : e.screen.some)

\* every project_point call of one cloud multiplies by the same matrix
Projector_project_point_cloud(pr, points, c) ==
    ProjectCloudWith(pr, points, Camera_view_projection_matrix(c))

\* sort_by(|a, b| b.depth.partial_cmp(a.depth)): stable, farthest first
RECURSIVE SortInsert(_, _)
SortInsert(sorted, e) ==
    IF sorted = <<>> THEN <<e>>
    ELSE IF RLt(Head(sorted).screen.depth, e.screen.depth) THEN <<e>> \o sorted
    ELSE <<Head(sorted)>> \o SortInsert(Tail(sorted), e)

RECURSIVE SortByDepthDescending(_)
SortByDepthDescending(s) ==
    IF s = <<>> THEN <<>>
    ELSE SortInsert(SortByDepthDescending(SubSeq(s, 1, Len(s) - 1)), s[Len(s)])

RECURSIVE Concat(_)
Concat(ss) == IF ss = <<>> THEN <<>> ELSE Head(ss) \o Concat(Tail(ss))

----------------------------------------------------------------------------
(* Axes (axes.rs).  The generator's output is kept per segment: each call   *)
(* of add_axis_line, add_tick_mark, add_line and add_arrow_base is one      *)
(* record [kind, points], in the order the calls append to the cloud.       *)

NoAxes == [some |-> FALSE]

AxesConfig_new ==
    [some |-> TRUE, length |-> R(5), points_per_unit |-> R(10),
     x_color |-> RED, y_color |-> GREEN, z_color |-> BLUE,
     tick_spacing |-> R(1), tick_length |-> <<1, 10>>, arrow_size |-> <<1, 5>>,
     show_ticks |-> TRUE, show_arrows |-> TRUE, show_labels |-> TRUE]

AxesConfig_with_length(config, length) == [config EXCEPT !.length = length]

AxesConfig_with_ticks(config, spacing, length) ==
    [config EXCEPT !.tick_spacing = spacing, !.tick_length = length]

AxesConfig_with_features(config, ticks, arrows, labels) ==
    [config EXCEPT !.show_ticks = ticks, !.show_arrows = arrows, !.show_labels = labels]

AxesConfig_with_resolution(config, points_per_unit) ==
    [config EXCEPT !.points_per_unit = points_per_unit]

\* a configuration with ticks, arrows and labels off
AxesConfig(length, points_per_unit) ==
    AxesConfig_with_features(
        AxesConfig_with_resolution(AxesConfig_with_length(AxesConfig_new, length),
                                   points_per_unit),
        FALSE, FALSE, FALSE)

\* num_points + 1 points at direction * (t * length), t = i / num_points
AxisLinePoints(direction, length, num_points, color) ==
    [i \in 1..(num_points + 1) |->
        Point3D(VScale(direction, RMul(RDiv(R(i - 1), R(num_points)), length)), color)]

Axes_add_axis_line(config, direction, color) ==
    AxisLinePoints(direction, config.length,
                   AsU32(RMul(config.length, config.points_per_unit)), color)

\* the second perpendicular, from the first
PerpendicularPair(direction, perp1) == <<perp1, VNormalize(VCross(direction, perp1))>>

Axes_get_perpendicular_dirs(direction) ==
    PerpendicularPair(
        direction,
        VNormalize(VCross(direction,
                          IF RLt(RAbs(VDot(direction, V3(0, 1, 0))), <<9, 10>>)
                          THEN V3(0, 1, 0) ELSE V3(1, 0, 0))))

\* num_points + 1 points at center + direction * (t * half_length), t from -1 to 1
TickMarkPoints(center, direction, half_length, num_points, color) ==
    [i \in 1..(num_points + 1) |->
        Point3D(VAdd(center,
                     VScale(direction,
                            RMul(RSub(RMul(RDiv(R(i - 1), R(num_points)), R(2)), R(1)),
                                 half_length))),
                color)]

Axes_add_tick_mark(config, center, direction, color) ==
    TickMarkPoints(center, direction, RMul(config.tick_length, <<1, 2>>),
                   UsizeMax(AsU32(RMul(RMul(config.tick_length, config.points_per_unit),
                                       R(2))),
                            3),
                   color)

\* the tick marks of one axis: two per tick, along perp1 and then perp2
Axes_add_axis_ticks(config, direction, color) ==
    IF RLe(config.tick_spacing, R(0)) THEN <<>>
    ELSE [j \in 1..(2 * AsU32(RDiv(config.length, config.tick_spacing))) |->
            [kind |-> "tick mark",
             points |-> Axes_add_tick_mark(
                            config,
                            VScale(direction, RMul(R((j + 1) \div 2), config.tick_spacing)),
                            Axes_get_perpendicular_dirs(direction)[2 - (j % 2)], color)]]

\* add_line's count before the floor, (distance * points_per_unit * 2.0) as usize,
\* taken as the integer root of the floor of the squared product
Axes_line_count(config, start, end) ==
    ISqrt(AsU32(RMul(VLengthSquared(VSub(end, start)),
                     RMul(RMul(config.points_per_unit, R(2)),
                          RMul(config.points_per_unit, R(2))))))

\* num_points + 1 points at start.lerp(end, t), t from 0 to 1
LinePoints(start, end, num_points, color) ==
    [i \in 1..(num_points + 1) |->
        Point3D(VAdd(start, VScale(VSub(end, start), RDiv(R(i - 1), R(num_points)))),
                color)]

Axes_add_line(config, start, end, color) ==
    LinePoints(start, end, UsizeMax(Axes_line_count(config, start, end), 2), color)

\* cos and sin of 2 * pi * i / 8, with 7/10 for the irrational root of 1/2
OctagonCos(i) == <<R(1), <<7, 10>>, R(0), <<-7, 10>>, R(-1), <<-7, 10>>, R(0), <<7, 10>>>>[i + 1]

OctagonSin(i) == OctagonCos((i + 6) % 8)

Axes_add_arrow_base(center, perp1, perp2, radius, color) ==
    [i \in 1..8 |->
        Point3D(VAdd(VAdd(center, VScale(perp1, RMul(radius, OctagonCos(i - 1)))),
                     VScale(perp2, RMul(radius, OctagonSin(i - 1)))),
                color)]

\* the four wing lines from the tip, then the base circle
ArrowSegments(config, tip_pos, base_pos, perp, wing_length, color) ==
    [w \in 1..4 |->
        [kind |-> "arrow wing",
         points |-> Axes_add_line(
                        config, tip_pos,
                        VAdd(base_pos,
                             VScale(perp[(w + 1) \div 2],
                                    IF w % 2 = 1 THEN wing_length ELSE RNeg(wing_length))),
                        color)]]
    \o <<[kind |-> "arrow base",
          points |-> Axes_add_arrow_base(base_pos, perp[1], perp[2],
                                         RMul(wing_length, <<7, 10>>), color)]>>

Axes_add_axis_arrow(config, direction, color) ==
    ArrowSegments(config, VScale(direction, config.length),
                  VSub(VScale(direction, config.length),
                       VScale(direction, config.arrow_size)),
                  Axes_get_perpendicular_dirs(direction),
                  RMul(config.arrow_size, <<1, 2>>), color)

\* the strokes of the labels X, Y and Z as pairs of offsets from the label's
\* centre, in units of half_size
LabelStrokes ==
    << << <<V3(-1, -1, 0), V3(1, 1, 0)>>, <<V3(-1, 1, 0), V3(1, -1, 0)>> >>,
       << <<V3(0, -1, 0), V3(0, 0, 0)>>, <<V3(-1, 1, 0), V3(0, 0, 0)>>,
          <<V3(1, 1, 0), V3(0, 0, 0)>> >>,
       << <<V3(-1, 1, 0), V3(1, 1, 0)>>, <<V3(1, 1, 0), V3(-1, -1, 0)>>,
          <<V3(-1, -1, 0), V3(1, -1, 0)>> >> >>

\* add_x_label, add_y_label, add_z_label: one add_line per stroke
LabelSegments(config, center, strokes, half_size, color) ==
    [k \in 1..Len(strokes) |->
        [kind |-> "label stroke",
         points |-> Axes_add_line(config, VAdd(center, VScale(strokes[k][1], half_size)),
                                  VAdd(center, VScale(strokes[k][2], half_size)), color)]]

AxisDirection(a) == <<V3(1, 0, 0), V3(0, 1, 0), V3(0, 0, 1)>>[a]

AxisColor(config, a) == <<config.x_color, config.y_color, config.z_color>>[a]

Axes_add_axis_labels(config) ==
    Concat([a \in 1..3 |->
        LabelSegments(config,
                      VScale(AxisDirection(a),
                             RAdd(RAdd(config.length, config.arrow_size), <<3, 10>>)),
                      LabelStrokes[a], RMul(<<1, 5>>, <<1, 2>>), AxisColor(config, a))])

Axes_generate_segments(config) ==
    [a \in 1..3 |->
        [kind |-> "axis line",
         points |-> Axes_add_axis_line(config, AxisDirection(a), AxisColor(config, a))]]
    \o (IF config.show_ticks
        THEN Concat([a \in 1..3 |->
                        Axes_add_axis_ticks(config, AxisDirection(a), AxisColor(config, a))])
        ELSE <<>>)
    \o (IF config.show_arrows
        THEN Concat([a \in 1..3 |->
                        Axes_add_axis_arrow(config, AxisDirection(a), AxisColor(config, a))])
        ELSE <<>>)
    \o (IF config.show_labels THEN Axes_add_axis_labels(config) ELSE <<>>)

\* the cloud: the points of the segments, in order
SegmentPoints(segments) == Concat([k \in 1..Len(segments) |-> segments[k].points])

Axes_generate_points(config) == SegmentPoints(Axes_generate_segments(config))

----------------------------------------------------------------------------
(* AsciiRenderer (ascii_renderer.rs). A String is a sequence of characters, *)
(* the escape character is written "ESC".                                   *)

CharacterSet_Standard == [kind |-> "Standard", chars |-> <<>>]

CharacterSet_Blocks == [kind |-> "Blocks", chars |-> <<>>]

CharacterSet_Dots == [kind |-> "Dots", chars |-> <<>>]

CharacterSet_Custom(chars) == [kind |-> "Custom", chars |-> chars]

CharacterSet_chars(cs) ==
    CASE cs.kind = "Standard" -> <<" ", ".", ":", "-", "=", "+", "*", "#", "%", "@">>
      [] cs.kind = "Blocks" -> <<" ", "light shade", "medium shade", "dark shade", "full block">>
      [] cs.kind = "Dots" -> <<" ", ".", "middle dot", "bullet", "white circle", "black circle">>
      [] OTHER -> cs.chars

AsciiRenderer_new(w, h) ==
    [width |-> w, height |-> h, character_set |-> CharacterSet_Standard,
     background_char |-> " ", use_color |-> FALSE,
     projector |-> Projector_new(w, h), depth_buffer |-> DepthBuffer_new(w, h),
     axes_config |-> NoAxes]

AsciiRenderer_set_character_set(r, character_set) ==
    [r EXCEPT !.character_set = character_set]

AsciiRenderer_set_background_char(r, ch) == [r EXCEPT !.background_char = ch]

AsciiRenderer_set_color_enabled(r, enable) == [r EXCEPT !.use_color = enable]

AsciiRenderer_set_axes_config(r, config) == [r EXCEPT !.axes_config = config]

PRACTICAL_FAR == <<19, 20>>

AsciiRenderer_depth_index_NotInverted(chars, depth) ==
    LET clamped_depth == RClamp(depth, R(0), PRACTICAL_FAR)
        normalized_depth == RDiv(clamped_depth, PRACTICAL_FAR)
        visible_chars == Tail(chars)
        index == AsU32(RMul(normalized_depth, R(Len(visible_chars) - 1)))
    IN  IF index < Len(visible_chars) - 1 THEN index ELSE Len(visible_chars) - 1

\* the index depth_to_char computes into visible_chars = chars[1..], for a set
\* of two glyphs or more
AsciiRenderer_depth_index(chars, depth) ==
    LET clamped_depth == RClamp(depth, R(0), PRACTICAL_FAR)
        normalized_depth == RDiv(clamped_depth, PRACTICAL_FAR)
        inverted_depth == RSub(R(1), normalized_depth)
        visible_chars == Tail(chars)
        index == AsU32(RMul(inverted_depth, R(Len(visible_chars) - 1)))
    IN  IF index < Len(visible_chars) - 1 THEN index ELSE Len(visible_chars) - 1

AsciiRenderer_depth_to_char_NoSkip(r, depth) ==
    LET chars == CharacterSet_chars(r.character_set)
    IN  IF chars = <<>> THEN " "
        ELSE IF Len(chars) <= 1 THEN chars[1]
        ELSE chars[AsciiRenderer_depth_index(chars, depth) + 1]

AsciiRenderer_depth_to_char(r, depth) ==
    LET chars == CharacterSet_chars(r.character_set)
    IN  IF chars = <<>> THEN " "
        ELSE IF Len(chars) <= 1 THEN chars[1]
        ELSE Tail(chars)[AsciiRenderer_depth_index(chars, depth) + 1]

DigitChars == <<"0", "1", "2", "3", "4", "5", "6", "7", "8", "9">>

\* format!("{}", n) of an unsigned integer
RECURSIVE Decimal(_)
Decimal(n) ==
    IF n < 10 THEN <<DigitChars[n + 1]>>
    ELSE Decimal(n \div 10) \o <<DigitChars[(n % 10) + 1]>>

\* u8 arithmetic wraps
U8(n) == n % 256

\* f32 `as u8`: truncation toward zero, saturating
AsU8(a) == IF AsU32(a) > 255 THEN 255 ELSE AsU32(a)

ColorLevel_SevenLevels(channel) == AsU8(RMul(RDiv(R(channel), R(255)), R(6)))

\* (channel as f32 / 255.0 * 5.0) as u8
ColorLevel(channel) == AsU8(RMul(RDiv(R(channel), R(255)), R(5)))

\* 16 + 36 * r + 6 * g + b in u8
AnsiCode(r, g, b) == U8(U8(U8(16 + U8(36 * r)) + U8(6 * g)) + b)

AsciiRenderer_color_to_ansi(r, color) ==
    IF ~r.use_color THEN <<>>
    ELSE <<"ESC", "[", "3", "8", ";", "5", ";">>
         \o Decimal(AnsiCode(ColorLevel(color.r), ColorLevel(color.g),
                              ColorLevel(color.b)))
         \o <<"m">>

AsciiRenderer_reset_color(r) == IF r.use_color THEN <<"ESC", "[", "0", "m">> ELSE <<>>

AsciiCell(r, ch, color) ==
    IF r.use_color /\ ch # r.background_char
    THEN AsciiRenderer_color_to_ansi(r, color) \o <<ch>> \o AsciiRenderer_reset_color(r)
    ELSE <<ch>>

AsciiRenderer_buffer_to_string_KeepNewline(r, char_buffer, color_buffer) ==
    Concat([y \in 1..r.height |->
               Concat([x \in 1..r.width |->
                          AsciiCell(r, char_buffer[y][x], color_buffer[y][x])])
               \o <<"\n">>])

AsciiRenderer_buffer_to_string(r, char_buffer, color_buffer) ==
    LET row(y) == Concat([x \in 1..r.width |->
                             AsciiCell(r, char_buffer[y][x], color_buffer[y][x])])
                  \o <<"\n">>
        result == Concat([y \in 1..r.height |-> row(y)])
    IN  IF result # <<>> /\ result[Len(result)] = "\n"
        THEN SubSeq(result, 1, Len(result) - 1)
        ELSE result

Grid(w, h, v) == [y \in 1..h |-> [x \in 1..w |-> v]]

AsciiDrawPoint_NoDepthTest(r, st, e) ==
    IF \/ RLt(e.screen.x, R(0)) \/ RLt(e.screen.y, R(0))
       \/ RGe(e.screen.x, R(r.width)) \/ RGe(e.screen.y, R(r.height))
    THEN st
    ELSE LET x == AsU32(RRound(e.screen.x))
             y == AsU32(RRound(e.screen.y))
         IN  IF x >= r.width \/ y >= r.height THEN st
             ELSE [depth_buffer |->
                       DepthBuffer_test_and_update(st.depth_buffer, x, y, e.screen.depth),
                   char_buffer |->
                       [st.char_buffer EXCEPT ![y + 1][x + 1] =
                            AsciiRenderer_depth_to_char(r, e.screen.depth)],
                   color_buffer |->
                       [st.color_buffer EXCEPT ![y + 1][x + 1] = e.point.color]]

\* one iteration of the drawing loop of render
AsciiDrawPoint(r, st, e) ==
    IF \/ RLt(e.screen.x, R(0)) \/ RLt(e.screen.y, R(0))
       \/ RGe(e.screen.x, R(r.width)) \/ RGe(e.screen.y, R(r.height))
    THEN st
    ELSE LET x == AsU32(RRound(e.screen.x))
             y == AsU32(RRound(e.screen.y))
         IN  IF x >= r.width \/ y >= r.height THEN st
             ELSE IF DepthBuffer_test(st.depth_buffer, x, y, e.screen.depth)
             THEN [depth_buffer |->
                       DepthBuffer_test_and_update(st.depth_buffer, x, y, e.screen.depth),
                   char_buffer |->
                       [st.char_buffer EXCEPT ![y + 1][x + 1] =
                            AsciiRenderer_depth_to_char(r, e.screen.depth)],
                   color_buffer |->
                       [st.color_buffer EXCEPT ![y + 1][x + 1] = e.point.color]]
             ELSE st

RECURSIVE AsciiDraw(_, _, _)
AsciiDraw(r, st, sorted_points) ==
    IF sorted_points = <<>> THEN st
    ELSE AsciiDraw(r, AsciiDrawPoint(r, st, Head(sorted_points)), Tail(sorted_points))

\* render: [ok, renderer, out], the renderer after the call and the String returned
\* the cloud render projects: the user points, then the axes points
AsciiRenderCloud(r, points) ==
    IF r.axes_config.some THEN points \o Axes_generate_points(r.axes_config) ELSE points

\* render from the merged cloud on
AsciiRenderMerged(r, render_cloud, camera) ==
    LET char_buffer == Grid(r.width, r.height, r.background_char)
        color_buffer == Grid(r.width, r.height, WHITE)
        blank == [ok |-> TRUE, renderer |-> r, projected |-> <<>>,
                  out |-> AsciiRenderer_buffer_to_string(r, char_buffer, color_buffer)]
        visual_aspect_ratio == RDiv(R(r.width), RMul(R(r.height), <<1, 2>>))
        render_camera == Camera_set_aspect_ratio(camera, visual_aspect_ratio)
        projected_points ==
            Projector_project_point_cloud(r.projector, render_cloud, render_camera)
        st == AsciiDraw(r, [depth_buffer |-> DepthBuffer_clear(r.depth_buffer),
                            char_buffer |-> char_buffer, color_buffer |-> color_buffer],
                        SortByDepthDescending(projected_points))
    IN  IF render_cloud = <<>> THEN blank
        ELSE IF ~AspectInRange(visual_aspect_ratio)
        THEN [ok |-> FALSE, renderer |-> r, projected |-> <<>>, out |-> <<>>]
        ELSE IF projected_points = <<>> THEN blank
        ELSE [ok |-> TRUE, renderer |-> [r EXCEPT !.depth_buffer = st.depth_buffer],
              projected |-> projected_points,
              out |-> AsciiRenderer_buffer_to_string(r, st.char_buffer, st.color_buffer)]

AsciiRenderer_render(r, points, camera) ==
    AsciiRenderMerged(r, AsciiRenderCloud(r, points), camera)

AsciiRenderer_set_viewport_NoResize(r, w, h) ==
    IF w = 0 \/ h = 0 THEN r
    ELSE [r EXCEPT !.width = w, !.height = h,
                   !.projector = Projector_set_viewport(@, w, h)]

AsciiRenderer_set_viewport(r, w, h) ==
    IF w = 0 \/ h = 0 THEN r
    ELSE [r EXCEPT !.width = w, !.height = h,
                   !.projector = Projector_set_viewport(@, w, h),
                   !.depth_buffer = DepthBuffer_resize(@, w, h)]

----------------------------------------------------------------------------
(* ImageRenderer (image_renderer.rs). An RgbImage is a grid of colors.     *)

ImageRenderer_new(w, h) ==
    [width |-> w, height |-> h, background_color |-> BLACK, point_size |-> R(2),
     projector |-> Projector_new(w, h), depth_buffer |-> DepthBuffer_new(w, h)]

ImageRenderer_set_background_color(r, color) == [r EXCEPT !.background_color = color]

ImageRenderer_set_point_size(r, size) ==
    IF RLe(size, R(0)) THEN r ELSE [r EXCEPT !.point_size = size]

\* image.put_pixel for each of a set of pixels <<x, y>>
PutPixels(img, writes, color) ==
    [py \in 1..Len(img) |-> [px \in 1..Len(img[py]) |->
        IF <<px - 1, py - 1>> \in writes THEN color ELSE img[py][px]]]

\* the offsets <<dx, dy>> both loops of a primitive run over
Offsets(n) == (-n..n) \X (-n..n)

PixelInImage(r, pixel_x, pixel_y) ==
    ~(pixel_x < 0 \/ pixel_y < 0 \/ pixel_x >= r.width \/ pixel_y >= r.height)

\* the pixels draw_point passes to put_pixel: a filled circle
ImageRenderer_draw_point_writes(r, x, y, size) ==
    LET radius == RMax(size, R(1))
        center_x == AsI32(x)
        center_y == AsI32(y)
        radius_int == RCeil(radius)
    IN  { <<center_x + d[1], center_y + d[2]>> :
            d \in { o \in Offsets(radius_int) :
                       /\ PixelInImage(r, center_x + o[1], center_y + o[2])
                       /\ RLe(R(o[1] * o[1] + o[2] * o[2]), RMul(radius, radius)) } }

ImageRenderer_draw_point(r, img, x, y, size, color) ==
    PutPixels(img, ImageRenderer_draw_point_writes(r, x, y, size), color)

\* the pixels draw_point_square passes to put_pixel
ImageRenderer_draw_point_square_writes(r, x, y, size) ==
    LET half_size == RMax(size, R(1))
        center_x == AsI32(x)
        center_y == AsI32(y)
        half_size_int == RCeil(half_size)
    IN  { <<center_x + d[1], center_y + d[2]>> :
            d \in { o \in Offsets(half_size_int) :
                       PixelInImage(r, center_x + o[1], center_y + o[2]) } }

ImageRenderer_draw_point_square(r, img, x, y, size, color) ==
    PutPixels(img, ImageRenderer_draw_point_square_writes(r, x, y, size), color)

\* the pixel draw_point_pixel passes to put_pixel, if any
ImageRenderer_draw_point_pixel_writes(r, x, y) ==
    LET pixel_x == AsU32(RRound(x))
        pixel_y == AsU32(RRound(y))
    IN  IF pixel_x < r.width /\ pixel_y < r.height THEN {<<pixel_x, pixel_y>>} ELSE {}

ImageRenderer_draw_point_pixel(r, img, x, y, color) ==
    PutPixels(img, ImageRenderer_draw_point_pixel_writes(r, x, y), color)

\* one iteration of the drawing loop of render
ImageDrawPoint(r, st, e) ==
    LET pixel == ScreenPoint_to_pixel_coords(e.screen, r.width, r.height)
    IN  IF DepthBuffer_test(st.depth_buffer, pixel[1], pixel[2], e.screen.depth)
        THEN [depth_buffer |->
                  DepthBuffer_test_and_update(st.depth_buffer, pixel[1], pixel[2],
                                              e.screen.depth),
              image |->
                  IF RLe(r.point_size, R(1))
                  THEN ImageRenderer_draw_point_pixel(r, st.image, e.screen.x, e.screen.y,
                                                      e.point.color)
                  ELSE IF RLe(r.point_size, R(3))
                  THEN ImageRenderer_draw_point_square(r, st.image, e.screen.x, e.screen.y,
                                                       r.point_size, e.point.color)
                  ELSE ImageRenderer_draw_point(r, st.image, e.screen.x, e.screen.y,
                                                r.point_size, e.point.color)]
        ELSE st

RECURSIVE ImageDraw(_, _, _)
ImageDraw(r, st, sorted_points) ==
    IF sorted_points = <<>> THEN st
    ELSE ImageDraw(r, ImageDrawPoint(r, st, Head(sorted_points)), Tail(sorted_points))

\* render: [ok, renderer, out], the renderer after the call and the image returned
ImageRenderer_render(r, points, camera) ==
    LET background == Grid(r.width, r.height, r.background_color)
        blank == [ok |-> TRUE, renderer |-> r, projected |-> <<>>, out |-> background]
        aspect_ratio == RDiv(R(r.width), R(r.height))
        render_camera == Camera_set_aspect_ratio(camera, aspect_ratio)
        projected_points ==
            Projector_project_point_cloud(r.projector, points, render_camera)
        st == ImageDraw(r, [depth_buffer |-> DepthBuffer_clear(r.depth_buffer),
                            image |-> background],
                        SortByDepthDescending(projected_points))
    IN  IF points = <<>> THEN blank
        ELSE IF ~AspectInRange(aspect_ratio)
        THEN [ok |-> FALSE, renderer |-> r, projected |-> <<>>, out |-> <<>>]
        ELSE IF projected_points = <<>> THEN blank
        ELSE [ok |-> TRUE, renderer |-> [r EXCEPT !.depth_buffer = st.depth_buffer],
              projected |-> projected_points, out |-> st.image]

ImageRenderer_set_viewport(r, w, h) ==
    IF w = 0 \/ h = 0 THEN r
    ELSE [r EXCEPT !.width = w, !.height = h,
                   !.projector = Projector_set_viewport(@, w, h),
                   !.depth_buffer = DepthBuffer_resize(@, w, h)]

----------------------------------------------------------------------------
(* Values of the components a specification does not exercise.             *)

NoLast == [op |-> "none", ok |-> TRUE, args |-> <<>>]

NoDb == DepthBuffer_new(1, 1)

NoOffered == Fill(1, FAR)

NoProj == [projector |-> Projector_new(1, 1), world_pos |-> V3(0, 0, 0),
           clip |-> <<R(0), R(0), R(0), R(0)>>, result |-> NoPoint]

NoRenderer == [width |-> 1, height |-> 1]

NoOut == <<>>

NoViewer == [some |-> FALSE]

----------------------------------------------------------------------------
(* Specification SpecDepth: one DepthBuffer driven through its public API. *)

\* Depths offered to a buffer between two resets (new, clear, resize) in the
\* behaviours explored; steps counts them.
MaxOffers == 2

DbNew(w, h) ==
    /\ IF w = 0 \/ h = 0
       THEN /\ UNCHANGED <<db, offered>>
            /\ UNCHANGED steps
            /\ last' = [op |-> "DepthBuffer::new", ok |-> FALSE, args |-> <<w, h>>]
       ELSE /\ db' = DepthBuffer_new(w, h)
            /\ offered' = Fill(w * h, FAR)
            /\ steps' = 0
            /\ last' = [op |-> "DepthBuffer::new", ok |-> TRUE, args |-> <<w, h>>]
    /\ UNCHANGED <<cam, proj, ascii, image, out, viewer>>

DbClear ==
    /\ db' = DepthBuffer_clear(db)
    /\ offered' = Fill(Len(db.depths), FAR)
    /\ steps' = 0
    /\ last' = [op |-> "clear", ok |-> TRUE, args |-> <<>>]
    /\ UNCHANGED <<cam, proj, ascii, image, out, viewer>>

DbResize(w, h) ==
    /\ db' = DepthBuffer_resize(db, w, h)
    /\ offered' = IF DepthBuffer_resize_ok(w, h) THEN Fill(w * h, FAR) ELSE offered
    /\ steps' = IF DepthBuffer_resize_ok(w, h) THEN 0 ELSE steps
    /\ last' = [op |-> "resize", ok |-> DepthBuffer_resize_ok(w, h), args |-> <<w, h>>]
    /\ UNCHANGED <<cam, proj, ascii, image, out, viewer>>

DbTestAndUpdate(x, y, depth) ==
    /\ steps < MaxOffers
    /\ steps' = steps + 1
    /\ db' = DepthBuffer_test_and_update(db, x, y, depth)
    /\ offered' = IF x < db.width /\ y < db.height
                  THEN [offered EXCEPT ![y * db.width + x + 1] = RMin(@, depth)]
                  ELSE offered
    /\ last' = [op |-> "test_and_update", ok |-> DepthBuffer_test(db, x, y, depth),
                args |-> <<x, y, depth>>]
    /\ UNCHANGED <<cam, proj, ascii, image, out, viewer>>

NextDepth ==
    \/ \E w \in Dims, h \in Dims : DbNew(w, h)
    \/ DbClear
    \/ \E w \in Dims, h \in Dims : DbResize(w, h)
    \/ \E x \in Coords, y \in Coords, depth \in DepthInputs : DbTestAndUpdate(x, y, depth)

SpecDepthInit ==
    /\ \E w \in 1..MaxDim, h \in 1..MaxDim :
          /\ db = DepthBuffer_new(w, h)
          /\ offered = Fill(w * h, FAR)
          /\ last = [op |-> "DepthBuffer::new", ok |-> TRUE, args |-> <<w, h>>]
    /\ cam = Camera_new
    /\ proj = NoProj
    /\ ascii = NoRenderer
    /\ image = NoRenderer
    /\ out = NoOut
    /\ steps = 0
    /\ viewer = NoViewer

SpecDepth == SpecDepthInit /\ [][NextDepth]_vars

\* C1: test_and_update out of bounds returns false and changes nothing; in
\* bounds it returns true and stores the depth exactly when depth < stored,
\* otherwise returns false and leaves the cell; all other cells are unchanged.
C1_TestAndUpdateContract ==
    [][last'.op = "test_and_update" =>
        LET x == last'.args[1]
            y == last'.args[2]
            depth == last'.args[3]
            i == y * db.width + x + 1
        IN  /\ db'.width = db.width /\ db'.height = db.height
            /\ Len(db'.depths) = Len(db.depths)
            /\ IF x >= db.width \/ y >= db.height
               THEN ~last'.ok /\ db'.depths = db.depths
               ELSE /\ last'.ok <=> RLt(depth, db.depths[i])
                    /\ db'.depths[i] = IF last'.ok THEN depth ELSE db.depths[i]
                    /\ \A j \in 1..Len(db.depths) : j # i => db'.depths[j] = db.depths[j]
    ]_vars

\* C1 witness: a tie (depth equal to the stored value below the far plane) was refused.
C1_Witness ==
    /\ last.op = "test_and_update"
    /\ ~last.ok
    /\ last.args[1] < db.width /\ last.args[2] < db.height
    /\ last.args[3] = db.depths[last.args[2] * db.width + last.args[1] + 1]
    /\ RLt(last.args[3], FAR)

\* C2: every cell holds the minimum of 1.0 and the depths offered in bounds at
\* that cell since the last new, clear or resize.
C2_CellsHoldMinimum ==
    /\ Len(db.depths) = db.width * db.height
    /\ Len(offered) = Len(db.depths)
    /\ \A i \in 1..Len(db.depths) : db.depths[i] = offered[i] /\ RLe(db.depths[i], FAR)

\* C2 witness: two cells hold different depths below the far plane.
C2_Witness ==
    \E i, j \in 1..Len(db.depths) :
        /\ RLt(db.depths[i], db.depths[j])
        /\ RLt(db.depths[j], FAR)

\* C4: resize with a zero dimension fails and changes nothing; otherwise the
\* buffer has the new dimensions and exactly w*h cells, all at 1.0.
C4_ResizeContract ==
    [][last'.op = "resize" =>
        LET w == last'.args[1]
            h == last'.args[2]
        IN  IF w = 0 \/ h = 0
            THEN ~last'.ok /\ db' = db
            ELSE /\ last'.ok
                 /\ db'.width = w /\ db'.height = h
                 /\ Len(db'.depths) = w * h
                 /\ \A i \in 1..(w * h) : db'.depths[i] = FAR
    ]_vars

\* C4 witness: a resize to a larger buffer succeeded on a buffer that held a
\* nearer depth, and the cell is back at the far plane.
C4_Witness ==
    /\ last.op = "resize" /\ last.ok
    /\ last.args[1] * last.args[2] > 1
    /\ \A i \in 1..Len(db.depths) : db.depths[i] = FAR

----------------------------------------------------------------------------
(* Specification SpecCamera: constructors and validated setters.           *)

FovDegreesInputs == {R(-90), R(0), R(60), R(90), R(180), R(270)}

FovRadiansInputs == {<<-1, 3>>, R(0), <<1, 3>>, <<2, 3>>, R(1), <<3, 2>>}

AspectInputs == {R(-1), R(0), R(1), <<16, 9>>}

NearInputs == {R(-1), R(0), <<1, 2>>, R(5), R(10)}

FarInputs == {R(5), R(200)}

\* (position, target) pairs whose distance is rational
LookAtInputs ==
    { <<V3(0, 0, 5), V3(0, 0, 0)>>,
      <<V3(0, 0, 10), V3(0, 0, 0)>>,
      <<<<R(0), R(0), <<1, 100>>>>, V3(0, 0, 0)>>,
      <<V3(0, 3, 0), V3(0, 0, 4)>>,
      <<V3(0, 0, 0), V3(0, 0, 0)>> }

CamIdle == UNCHANGED <<db, offered, proj, ascii, image, out, steps, viewer>>

MvIdle == UNCHANGED <<db, offered, proj, ascii, image, out, viewer>>

CamNew ==
    /\ cam' = Camera_new
    /\ last' = [op |-> "Camera::new", ok |-> TRUE, args |-> <<>>]
    /\ CamIdle

CamLookAt(pt) ==
    /\ cam' = Camera_look_at(pt[1], pt[2])
    /\ last' = [op |-> "Camera::look_at", ok |-> TRUE, args |-> pt]
    /\ CamIdle

CamWithPerspective(fov_degrees, aspect_ratio) ==
    /\ cam' = Camera_with_perspective(fov_degrees, aspect_ratio)
    /\ last' = [op |-> "Camera::with_perspective", ok |-> TRUE,
                args |-> <<fov_degrees, aspect_ratio>>]
    /\ CamIdle

CamSetFovDegrees(fov_degrees) ==
    /\ cam' = Camera_set_fov_degrees(cam, fov_degrees)
    /\ last' = [op |-> "set_fov_degrees", ok |-> FovDegreesInRange(fov_degrees),
                args |-> <<fov_degrees>>]
    /\ CamIdle

CamSetFovRadians(fov_radians) ==
    /\ cam' = Camera_set_fov_radians(cam, fov_radians)
    /\ last' = [op |-> "set_fov_radians", ok |-> FovRadiansInRange(fov_radians),
                args |-> <<fov_radians>>]
    /\ CamIdle

CamSetAspectRatio(aspect_ratio) ==
    /\ cam' = Camera_set_aspect_ratio(cam, aspect_ratio)
    /\ last' = [op |-> "set_aspect_ratio", ok |-> AspectInRange(aspect_ratio),
                args |-> <<aspect_ratio>>]
    /\ CamIdle

CamSetClippingPlanes(near, far) ==
    /\ cam' = Camera_set_clipping_planes(cam, near, far)
    /\ last' = [op |-> "set_clipping_planes", ok |-> ClippingInRange(near, far),
                args |-> <<near, far>>]
    /\ CamIdle

NextCamera ==
    \/ CamNew
    \/ \E pt \in LookAtInputs : CamLookAt(pt)
    \/ \E f \in FovDegreesInputs, a \in AspectInputs : CamWithPerspective(f, a)
    \/ \E f \in FovDegreesInputs : CamSetFovDegrees(f)
    \/ \E f \in FovRadiansInputs : CamSetFovRadians(f)
    \/ \E a \in AspectInputs : CamSetAspectRatio(a)
    \/ \E n \in NearInputs, f \in FarInputs : CamSetClippingPlanes(n, f)

SpecCameraInit ==
    /\ cam = Camera_new
    /\ last = [op |-> "Camera::new", ok |-> TRUE, args |-> <<>>]
    /\ db = NoDb
    /\ offered = NoOffered
    /\ proj = NoProj
    /\ ascii = NoRenderer
    /\ image = NoRenderer
    /\ out = NoOut
    /\ steps = 0
    /\ viewer = NoViewer

SpecCamera == SpecCameraInit /\ [][NextCamera]_vars

\* f32::to_degrees, the getter fov_degrees()
ToDegrees(rad) == RMul(rad, R(180))

C6_CameraInvariant ==
    /\ RLt(R(0), cam.fov) /\ RLt(cam.fov, PI)
    /\ RLt(R(0), cam.aspect_ratio)
    /\ RLt(R(0), cam.near)
    /\ RLt(cam.near, cam.far)

----------------------------------------------------------------------------
(* Specification SpecMove: zoom and frame_bounding_box on a posed camera.  *)

\* At most this many successful zooms are tried on one pose.
MaxZooms == 4

ZoomInputs == {R(-1), R(0), <<1, 2>>, R(2), R(10)}

MoveFovInputs == {R(0), R(90), R(180)}

\* (min, max) corners: a cube, a point, two flat boxes, an inverted box
BoxInputs ==
    { <<V3(-1, -1, -1), V3(1, 1, 1)>>,
      <<V3(0, 0, 0), V3(0, 0, 0)>>,
      <<V3(0, 0, 0), V3(2, 0, 2)>>,
      <<V3(1, 1, 0), V3(3, 3, 0)>>,
      <<V3(1, 1, 1), V3(-1, -1, -1)>> }

MvNew ==
    /\ cam' = Camera_new
    /\ steps' = 0
    /\ last' = [op |-> "Camera::new", ok |-> TRUE, args |-> <<>>]
    /\ MvIdle

MvLookAt(pt) ==
    /\ cam' = Camera_look_at(pt[1], pt[2])
    /\ steps' = 0
    /\ last' = [op |-> "Camera::look_at", ok |-> TRUE, args |-> pt]
    /\ MvIdle

MvSetFovDegrees(fov_degrees) ==
    /\ cam' = Camera_set_fov_degrees(cam, fov_degrees)
    /\ steps' = steps
    /\ last' = [op |-> "set_fov_degrees", ok |-> FovDegreesInRange(fov_degrees),
                args |-> <<fov_degrees>>]
    /\ MvIdle

MvZoom(factor) ==
    /\ steps < MaxZooms
    /\ cam' = Camera_zoom(cam, factor)
    /\ steps' = IF ZoomAllowed(cam, factor) THEN steps + 1 ELSE steps
    /\ last' = [op |-> "zoom", ok |-> ZoomAllowed(cam, factor), args |-> <<factor>>]
    /\ MvIdle

MvFrameBoundingBox(box) ==
    /\ cam' = Camera_frame_bounding_box(cam, box[1], box[2])
    /\ steps' = IF FrameAllowed(box[1], box[2]) THEN 0 ELSE steps
    /\ last' = [op |-> "frame_bounding_box", ok |-> FrameAllowed(box[1], box[2]), args |-> box]
    /\ MvIdle

NextMove ==
    \/ MvNew
    \/ \E pt \in LookAtInputs : MvLookAt(pt)
    \/ \E f \in MoveFovInputs : MvSetFovDegrees(f)
    \/ \E f \in ZoomInputs : MvZoom(f)
    \/ \E box \in BoxInputs : MvFrameBoundingBox(box)

SpecMove == SpecCameraInit /\ [][NextMove]_vars

CamPosed(c) == VFinite(c.position) /\ VFinite(c.target)

\* Model sanity: every distance the model takes a root of is the square of a rational.
MoveExact ==
    CamPosed(cam) => IsSquare(R(VReduced(VSub(cam.target, cam.position))[3]))

\* C7: zoom fails, leaving position and target, when factor <= 0 or when
\* distance / factor < 0.001, and succeeds otherwise; a camera at distance
\* >= 0.001 from its target is never brought below 0.001 by a zoom.
C7_ZoomGuards ==
    [][last'.op = "zoom" =>
        LET factor == last'.args[1]
            d == Camera_distance_to_target(cam)
        IN  /\ last'.ok <=> ~(RLe(factor, R(0)) \/ RLt(RDiv(d, factor), <<1, 1000>>))
            /\ ~last'.ok => cam'.position = cam.position /\ cam'.target = cam.target
            /\ RGe(d, <<1, 1000>>) => RGe(Camera_distance_to_target(cam'), <<1, 1000>>)
    ]_vars

\* C7 witness: a zoom with a positive factor was refused at the 0.001 floor.
C7_Witness ==
    /\ last.op = "zoom" /\ ~last.ok
    /\ RGt(last.args[1], R(0))
    /\ RGe(Camera_distance_to_target(cam), <<1, 1000>>)

C9_FrameContract ==
    [][last'.op = "frame_bounding_box" =>
        LET min == last'.args[1]
            max == last'.args[2]
            size == VSub(max, min)
            ext == RMax(RMax(size[1], size[2]), size[3])
        IN  /\ (size[1] = R(0) \/ size[2] = R(0) \/ size[3] = R(0)) =>
                  (~last'.ok /\ cam'.position = cam.position /\ cam'.target = cam.target)
            /\ last'.ok =>
                  /\ cam'.target = VScale(VAdd(min, max), <<1, 2>>)
                  /\ Camera_distance_to_target(cam') =
                        RAdd(RDiv(RDiv(ext, R(2)), Tan(RDiv(cam.fov, R(2)))),
                             RMul(<<1, 10>>, ext))
    ]_vars

----------------------------------------------------------------------------
(* Specification SpecProject: one Projector, a camera and project_point.   *)

\* Two poses off the up axis and one looking straight down along it
ViewPoseInputs ==
    { <<V3(0, 0, 5), V3(0, 0, 0)>>,
      <<V3(0, 3, 0), V3(0, 0, 4)>>,
      <<V3(0, 5, 0), V3(0, 0, 0)>> }

ViewFovInputs == {R(45), R(90)}

\* x, y and z of the world points tried: in front, on the planes, at and behind the camera
WorldXs == {R(-6), R(0), R(1), R(5)}

WorldYs == {R(0), R(6)}

WorldZs == {R(-96), R(-95), R(0), <<49, 10>>, R(5), R(6)}

PjIdle == UNCHANGED <<db, offered, ascii, image, out, steps, viewer>>

\* The record of the last project_point call is dropped when the camera or
\* the viewport changes.
PjForget == proj' = [NoProj EXCEPT !.projector = proj.projector]

PjLookAt(pt) ==
    /\ cam' = [cam EXCEPT !.position = pt[1], !.target = pt[2]]
    /\ last' = [op |-> "set_position/set_target", ok |-> TRUE, args |-> pt]
    /\ PjForget
    /\ PjIdle

PjSetFovDegrees(fov_degrees) ==
    /\ cam' = Camera_set_fov_degrees(cam, fov_degrees)
    /\ last' = [op |-> "set_fov_degrees", ok |-> FovDegreesInRange(fov_degrees),
                args |-> <<fov_degrees>>]
    /\ PjForget
    /\ PjIdle

PjSetViewport(w, h) ==
    /\ proj' = [NoProj EXCEPT !.projector = Projector_set_viewport(proj.projector, w, h)]
    /\ last' = [op |-> "Projector::set_viewport", ok |-> ~(w = 0 \/ h = 0), args |-> <<w, h>>]
    /\ UNCHANGED cam
    /\ PjIdle

PjRecord(world_pos, clip) ==
    [projector |-> proj.projector, world_pos |-> world_pos, clip |-> clip,
     result |-> ProjectClip(proj.projector, clip)]

PjProjectPoint(world_pos) ==
    /\ proj' = PjRecord(world_pos, ClipPos(cam, world_pos))
    /\ last' = [op |-> "project_point", ok |-> TRUE, args |-> <<world_pos>>]
    /\ UNCHANGED cam
    /\ PjIdle

NextProject ==
    \/ \E pt \in ViewPoseInputs : PjLookAt(pt)
    \/ \E f \in ViewFovInputs : PjSetFovDegrees(f)
    \/ \E w \in Dims, h \in Dims : PjSetViewport(w, h)
    \/ \E x \in WorldXs, y \in WorldYs, z \in WorldZs : PjProjectPoint(<<x, y, z>>)

SpecProjectInit ==
    /\ cam = Camera_new
    /\ \E w \in 1..MaxDim, h \in 1..MaxDim :
          proj = [NoProj EXCEPT !.projector = Projector_new(w, h)]
    /\ last = NoLast
    /\ db = NoDb
    /\ offered = NoOffered
    /\ ascii = NoRenderer
    /\ image = NoRenderer
    /\ out = NoOut
    /\ steps = 0
    /\ viewer = NoViewer

SpecProject == SpecProjectInit /\ [][NextProject]_vars

\* C10 (as claimed): project_point returns nothing exactly when clip w <= 0 or an ndc
\* coordinate is out of range (x, y outside [-1,1], z outside [0,1]); otherwise
\* x = (ndc_x + 1)/2 * width, y = (1 - ndc_y)/2 * height, depth = ndc_z, so a
\* returned depth is in [0,1] and a point behind the camera is never returned.
C10_ProjectPoint ==
    last.op = "project_point" =>
        LET clip == proj.clip
            w == clip[4]
            res == proj.result
            vw == proj.projector.viewport_width
            vh == proj.projector.viewport_height
            InUnit(n, lo) == lo * w[1] * n[2] <= n[1] * w[2] /\ n[1] * w[2] <= w[1] * n[2]
        IN  /\ res.some <=> (w[1] > 0 /\ InUnit(clip[1], -1) /\ InUnit(clip[2], -1)
                                      /\ InUnit(clip[3], 0))
            /\ res.some =>
                  /\ res.x = RDiv(RMul(RAdd(clip[1], w), R(vw)), RMul(R(2), w))
                  /\ res.y = RDiv(RMul(RSub(w, clip[2]), R(vh)), RMul(R(2), w))
                  /\ res.depth = RDiv(clip[3], w)
                  /\ RLe(R(0), res.depth) /\ RLe(res.depth, R(1))
                  /\ RGt(w, R(0))

----------------------------------------------------------------------------
(* Specification SpecRender: one renderer, character or image, rendering   *)
(* clouds and being resized and reconfigured between renders.              *)

\* on the view axis of Camera::new(): on the near plane, at the target, beyond the camera
PointNear == Point3D(<<R(0), R(0), <<49, 10>>>>, RED)

PointMid == Point3D(V3(0, 0, 0), GREEN)

PointOff == Point3D(V3(-2, 0, 0), BLUE)

PointBehind == Point3D(V3(0, 0, 6), WHITE)

\* at the position of PointMid, in another colour
PointTie == Point3D(V3(0, 0, 0), RED)

CloudInputs ==
    { <<>>, <<PointBehind>>, <<PointNear>>, <<PointOff, PointMid>>, <<PointNear, PointMid>>,
      <<PointMid, PointTie>> }

\* the default view and the view from the opposite side
RenderCameraInputs == {Camera_new, Camera_look_at(V3(0, 0, -5), V3(0, 0, 0))}

AxesInputs == {NoAxes, AxesConfig(R(1), R(1))}

PointSizeInputs == {R(0), R(1), R(4)}

\* the default background and the other one the documentation suggests
BackgroundInputs == {" ", "."}

\* Some cell held a nearer depth before the render than the depth of the
\* point the render drew there.
Stale(before, after) ==
    \E i \in 1..Len(after.depths) :
        /\ i <= Len(before.depths)
        /\ RLt(before.depths[i], after.depths[i])
        /\ RLt(after.depths[i], FAR)

RnIdle == UNCHANGED <<db, offered, cam, proj, steps, viewer>>

\* a render returned res: the renderer is replaced; the output, the call and the
\* points the projector accepted are recorded
RnRendered(op, res, points, camera, before) ==
    /\ out' = res.out
    /\ last' = [op |-> op, ok |-> res.ok,
                args |-> <<points, camera, Stale(before, res.renderer.depth_buffer),
                           res.projected>>]

\* a call that returns no value
RnConfigured(op, ok, args) ==
    /\ last' = [op |-> op, ok |-> ok, args |-> args]
    /\ out' = NoOut

RnAsciiRendered(res, points, camera) ==
    /\ ascii' = res.renderer
    /\ RnRendered("ascii_render", res, points, camera, ascii.depth_buffer)

RnAsciiRender(points, camera) ==
    /\ ascii # NoRenderer
    /\ RnAsciiRendered(AsciiRenderer_render(ascii, points, camera), points, camera)
    /\ UNCHANGED image
    /\ RnIdle

RnAsciiSetViewport(w, h) ==
    /\ ascii # NoRenderer
    /\ ascii' = AsciiRenderer_set_viewport(ascii, w, h)
    /\ RnConfigured("ascii_set_viewport", ~(w = 0 \/ h = 0),
                    <<w, h, <<ascii.width, ascii.height>> # <<w, h>>>>)
    /\ UNCHANGED image
    /\ RnIdle

RnAsciiSetColorEnabled(enable) ==
    /\ ascii # NoRenderer
    /\ ascii' = AsciiRenderer_set_color_enabled(ascii, enable)
    /\ RnConfigured("ascii_configure", TRUE, <<>>)
    /\ UNCHANGED image
    /\ RnIdle

RnAsciiSetBackgroundChar(ch) ==
    /\ ascii # NoRenderer
    /\ ascii' = AsciiRenderer_set_background_char(ascii, ch)
    /\ RnConfigured("ascii_configure", TRUE, <<>>)
    /\ UNCHANGED image
    /\ RnIdle

RnAsciiSetAxesConfig(config) ==
    /\ ascii # NoRenderer
    /\ ascii' = AsciiRenderer_set_axes_config(ascii, config)
    /\ RnConfigured("ascii_configure", TRUE, <<>>)
    /\ UNCHANGED image
    /\ RnIdle

RnImageRendered(res, points, camera) ==
    /\ image' = res.renderer
    /\ RnRendered("image_render", res, points, camera, image.depth_buffer)

RnImageRender(points, camera) ==
    /\ image # NoRenderer
    /\ RnImageRendered(ImageRenderer_render(image, points, camera), points, camera)
    /\ UNCHANGED ascii
    /\ RnIdle

RnImageSetViewport(w, h) ==
    /\ image # NoRenderer
    /\ image' = ImageRenderer_set_viewport(image, w, h)
    /\ RnConfigured("image_set_viewport", ~(w = 0 \/ h = 0),
                    <<w, h, <<image.width, image.height>> # <<w, h>>>>)
    /\ UNCHANGED ascii
    /\ RnIdle

RnImageSetPointSize(size) ==
    /\ image # NoRenderer
    /\ image' = ImageRenderer_set_point_size(image, size)
    /\ RnConfigured("image_configure", ~RLe(size, R(0)), <<>>)
    /\ UNCHANGED ascii
    /\ RnIdle

NextRender ==
    \/ \E points \in CloudInputs, camera \in RenderCameraInputs :
          RnAsciiRender(points, camera)
    \/ \E w \in Dims, h \in Dims : RnAsciiSetViewport(w, h)
    \/ \E enable \in BOOLEAN : RnAsciiSetColorEnabled(enable)
    \/ \E ch \in BackgroundInputs : RnAsciiSetBackgroundChar(ch)
    \/ \E config \in AxesInputs : RnAsciiSetAxesConfig(config)
    \/ \E points \in CloudInputs, camera \in RenderCameraInputs :
          RnImageRender(points, camera)
    \/ \E w \in Dims, h \in Dims : RnImageSetViewport(w, h)
    \/ \E size \in PointSizeInputs : RnImageSetPointSize(size)

SpecRenderInit ==
    /\ cam = Camera_new
    /\ \E w \in 1..MaxDim, h \in 1..MaxDim :
          \/ ascii = AsciiRenderer_new(w, h) /\ image = NoRenderer
          \/ ascii = NoRenderer /\ image = ImageRenderer_new(w, h)
    /\ out = NoOut
    /\ last = NoLast
    /\ db = NoDb
    /\ offered = NoOffered
    /\ proj = NoProj
    /\ steps = 0
    /\ viewer = NoViewer

SpecRender == SpecRenderInit /\ [][NextRender]_vars

AsciiFresh(r) == [r EXCEPT !.depth_buffer = DepthBuffer_new(r.width, r.height)]

ImageFresh(r) == [r EXCEPT !.depth_buffer = DepthBuffer_new(r.width, r.height)]

\* C3: a render returns what the same render returns on a renderer of the same
\* configuration that has never rendered (depth buffer all 1.0), whatever
\* renders, resizes and blank early returns came before, and it changes
\* nothing of the renderer but the depth buffer.
C3_RendersIndependent ==
    [][ /\ last'.op = "ascii_render" =>
              /\ out' = AsciiRenderer_render(AsciiFresh(ascii), last'.args[1], last'.args[2]).out
              /\ ascii' = [ascii EXCEPT !.depth_buffer = ascii'.depth_buffer]
        /\ last'.op = "image_render" =>
              /\ out' = ImageRenderer_render(ImageFresh(image), last'.args[1], last'.args[2]).out
              /\ image' = [image EXCEPT !.depth_buffer = image'.depth_buffer]
      ]_vars

\* C3 witness: a render drew a point at a cell where an earlier render had
\* left a nearer depth.
C3_Witness ==
    /\ last.op \in {"ascii_render", "image_render"}
    /\ last.ok
    /\ last.args[3]

AsciiRenderer_viewport_size(r) == <<r.width, r.height>>

ImageRenderer_viewport_size(r) == <<r.width, r.height>>

\* the three sizes a renderer keeps: its own, its projector's, its depth buffer's
ViewportSizes(size, r) ==
    <<size,
      <<r.projector.viewport_width, r.projector.viewport_height>>,
      <<r.depth_buffer.width, r.depth_buffer.height>>>>

ViewportConsistent(size, r) ==
    /\ ViewportSizes(size, r)[1] = ViewportSizes(size, r)[2]
    /\ ViewportSizes(size, r)[1] = ViewportSizes(size, r)[3]
    /\ size[1] > 0 /\ size[2] > 0
    /\ Len(r.depth_buffer.depths) = size[1] * size[2]

\* the effect of one set_viewport(w, h) call that returned ok on the three sizes
ViewportStep(ok, w, h, before, after) ==
    IF w = 0 \/ h = 0
    THEN ~ok /\ after = before
    ELSE ok /\ after = <<(<<w, h>>), (<<w, h>>), (<<w, h>>)>>

\* C11: the renderer's viewport_size(), its projector's viewport and its depth
\* buffer's dimensions are always equal and non-zero; set_viewport with a zero
\* dimension fails and changes none of them, with positive dimensions it sets
\* all three to the requested size.
C11_ViewportConsistent ==
    /\ [](ascii # NoRenderer =>
              ViewportConsistent(AsciiRenderer_viewport_size(ascii), ascii))
    /\ [](image # NoRenderer =>
              ViewportConsistent(ImageRenderer_viewport_size(image), image))
    /\ [][ /\ last'.op = "ascii_set_viewport" =>
                  ViewportStep(last'.ok, last'.args[1], last'.args[2],
                               ViewportSizes(AsciiRenderer_viewport_size(ascii), ascii),
                               ViewportSizes(AsciiRenderer_viewport_size(ascii'), ascii'))
           /\ last'.op = "image_set_viewport" =>
                  ViewportStep(last'.ok, last'.args[1], last'.args[2],
                               ViewportSizes(ImageRenderer_viewport_size(image), image),
                               ViewportSizes(ImageRenderer_viewport_size(image'), image'))
       ]_vars

\* C11 witness: a set_viewport call was accepted and changed the size of a
\* renderer to a non-square one.
C11_Witness ==
    /\ last.op \in {"ascii_set_viewport", "image_set_viewport"}
    /\ last.ok
    /\ last.args[3]
    /\ last.args[1] # last.args[2]

\* a text of h lines of w copies of ch, joined by newlines
BlankText(w, h, ch) ==
    [i \in 1..(h * (w + 1) - 1) |-> IF i % (w + 1) = 0 THEN "\n" ELSE ch]

\* C12 (as claimed): render of an empty cloud succeeds and returns height
\* lines of width background characters, with no trailing newline.
C12_EmptyCloudBlank ==
    [][last'.op = "ascii_render" /\ last'.args[1] = <<>> =>
          /\ last'.ok
          /\ out' = BlankText(ascii.width, ascii.height, ascii.background_char)
      ]_vars

\* C12 (amended): render of an empty cloud by a renderer with no axes
\* configured succeeds and returns height lines of width background
\* characters, with no trailing newline.
C12_EmptyCloudBlankWithoutAxes ==
    [][last'.op = "ascii_render" /\ last'.args[1] = <<>> /\ ~ascii.axes_config.some =>
          /\ last'.ok
          /\ out' = BlankText(ascii.width, ascii.height, ascii.background_char)
      ]_vars

\* C12 witness: an empty cloud was rendered without axes to several lines of
\* several cells of a background that is not the default.
C12_Witness ==
    /\ last.op = "ascii_render"
    /\ last.args[1] = <<>>
    /\ ~ascii.axes_config.some
    /\ ascii.width > 1 /\ ascii.height > 1
    /\ ascii.background_char # " "
    /\ Len(out) = ascii.height * (ascii.width + 1) - 1

\* the screen points render computes for the cloud given to it: project_point
\* with the aspect ratio render gives the camera
AsciiProjected(r, points, camera) ==
    Projector_project_point_cloud(
        r.projector, points,
        Camera_set_aspect_ratio(camera, RDiv(R(r.width), RMul(R(r.height), <<1, 2>>))))

\* the text has a cell that is not the background character
HasVisibleCell(text, background_char) ==
    \E i \in 1..Len(text) : text[i] \notin {background_char, "\n"}

\* C13: whenever project_point accepts at least one point of the cloud, the
\* text render returns has at least one cell that is not the background
\* character.
C13_VisibleCloudDrawn ==
    [][last'.op = "ascii_render" /\ AsciiProjected(ascii, last'.args[1], last'.args[2]) # <<>> =>
          /\ last'.ok
          /\ HasVisibleCell(out', ascii.background_char)
      ]_vars

\* the screen points render computes for the cloud given to it: project_point
\* with the aspect ratio render gives the camera
ImageProjected(r, points, camera) ==
    Projector_project_point_cloud(
        r.projector, points,
        Camera_set_aspect_ratio(camera, RDiv(R(r.width), R(r.height))))

\* some pixel of the image has the color
HasPixel(img, color) ==
    \E py \in 1..Len(img) : \E px \in 1..Len(img[py]) : img[py][px] = color

\* C18: every pixel of a rendered image is the background colour or the
\* colour of a point the projector accepted; with no accepted point every
\* pixel is background; every accepted point whose pixel no other accepted
\* point maps to has at least one pixel of its colour in the image.
C18_ImagePixels ==
    [][last'.op = "image_render" =>
        LET projected == ImageProjected(image, last'.args[1], last'.args[2])
            pixel(i) == ScreenPoint_to_pixel_coords(projected[i].screen,
                                                    image.width, image.height)
        IN  /\ last'.ok
            /\ Len(out') = image.height
            /\ \A py \in 1..image.height :
                  /\ Len(out'[py]) = image.width
                  /\ \A px \in 1..image.width :
                        \/ out'[py][px] = image.background_color
                        \/ \E i \in 1..Len(projected) :
                              out'[py][px] = projected[i].point.color
            /\ projected = <<>> => ~\E c \in {RED, GREEN, BLUE, WHITE} : HasPixel(out', c)
            /\ \A i \in 1..Len(projected) :
                  (\A j \in 1..Len(projected) : j # i => pixel(j) # pixel(i))
                      => HasPixel(out', projected[i].point.color)
    ]_vars

\* the projected points, in cloud order, that map to cell <<x, y>> with a
\* depth below 1.0
CellPoints(r, projected, x, y) ==
    { i \in 1..Len(projected) :
        /\ RGe(projected[i].screen.x, R(0)) /\ RGe(projected[i].screen.y, R(0))
        /\ RoundedInt(projected[i].screen.x) = x
        /\ RoundedInt(projected[i].screen.y) = y
        /\ RLt(projected[i].screen.depth, FAR) }

\* the nearest of them, the first in cloud order among equally near ones
NearestFirst(projected, candidates) ==
    CHOOSE i \in candidates :
        \A j \in candidates :
            \/ RLt(projected[i].screen.depth, projected[j].screen.depth)
            \/ projected[i].screen.depth = projected[j].screen.depth /\ i <= j

\* C19: each cell some projected point with depth below 1.0 maps to shows the
\* glyph and colour of the nearest such point, the first in the cloud (user
\* points before axes points) among equally near ones; every other cell is
\* background.
C19_NearestPointShown ==
    [][last'.op = "ascii_render" /\ last'.ok =>
        \A projected \in {last'.args[4]} :
        \A cells \in {[y \in 1..ascii.height |-> [x \in 1..ascii.width |->
                          CellPoints(ascii, projected, x - 1, y - 1)]]} :
        \A nearest \in {[y \in 1..ascii.height |-> [x \in 1..ascii.width |->
                            IF cells[y][x] = {} THEN 0
                            ELSE NearestFirst(projected, cells[y][x])]]} :
          LET char_buffer ==
                  [y \in 1..ascii.height |-> [x \in 1..ascii.width |->
                      IF nearest[y][x] = 0 THEN ascii.background_char
                      ELSE AsciiRenderer_depth_to_char(
                               ascii, projected[nearest[y][x]].screen.depth)]]
              color_buffer ==
                  [y \in 1..ascii.height |-> [x \in 1..ascii.width |->
                      IF nearest[y][x] = 0 THEN WHITE
                      ELSE projected[nearest[y][x]].point.color]]
          IN  out' = AsciiRenderer_buffer_to_string(ascii, char_buffer, color_buffer)
    ]_vars

\* C19 witness: a render with colour drew a cell that two points of different
\* colours map to at the same, least, depth.
C19_Witness ==
    /\ last.op = "ascii_render"
    /\ last.ok
    /\ ascii.use_color
    /\ ascii.background_char = " "
    /\ \E projected \in {last.args[4]} :
           \E x \in 0..(ascii.width - 1), y \in 0..(ascii.height - 1) :
             \E i, j \in CellPoints(ascii, projected, x, y) :
                /\ i = NearestFirst(projected, CellPoints(ascii, projected, x, y))
                /\ i < j
                /\ projected[i].screen.depth = projected[j].screen.depth
                /\ projected[i].point.color # projected[j].point.color

----------------------------------------------------------------------------
(* Specification SpecGlyph: the glyph and colour mappings of one           *)
(* AsciiRenderer, called with depths and colours under every character set *)
(* and colour setting.                                                     *)

\* the presets, and custom sets of zero, one, two and three glyphs, one of
\* them repeating its first glyph
CharacterSetInputs ==
    { CharacterSet_Standard, CharacterSet_Blocks, CharacterSet_Dots,
      CharacterSet_Custom(<<>>), CharacterSet_Custom(<<"#">>),
      CharacterSet_Custom(<<" ", "#">>), CharacterSet_Custom(<<".", ".", "#">>) }

\* below the range, its ends, around PRACTICAL_FAR, beyond 1, and NaN
GlyphDepthInputs ==
    { R(-1), R(0), <<1, 10>>, <<1, 2>>, <<9, 10>>, <<47, 50>>, PRACTICAL_FAR,
      <<24, 25>>, R(1), R(2), NaN }

\* channel values on both sides of the quantization steps
ChannelInputs == {0, 50, 51, 102, 153, 204, 255}

ColorInputs == {Color(r, g, b) : r \in ChannelInputs, g \in ChannelInputs, b \in ChannelInputs}

GlIdle == UNCHANGED <<db, offered, cam, proj, image, steps, viewer>>

GlSetCharacterSet(character_set) ==
    /\ ascii' = AsciiRenderer_set_character_set(ascii, character_set)
    /\ out' = NoOut
    /\ last' = [op |-> "set_character_set", ok |-> TRUE, args |-> <<>>]
    /\ GlIdle

GlSetColorEnabled(enable) ==
    /\ ascii' = AsciiRenderer_set_color_enabled(ascii, enable)
    /\ out' = NoOut
    /\ last' = [op |-> "set_color_enabled", ok |-> TRUE, args |-> <<>>]
    /\ GlIdle

\* depth_to_char(depth): the char returned, and the index into visible_chars
\* the call computed (0 when the set is too small for the call to compute one)
GlDepthToChar(depth) ==
    /\ out' = <<AsciiRenderer_depth_to_char(ascii, depth)>>
    /\ last' = [op |-> "depth_to_char", ok |-> TRUE,
                args |-> <<depth,
                           IF Len(CharacterSet_chars(ascii.character_set)) >= 2
                           THEN AsciiRenderer_depth_index(
                                    CharacterSet_chars(ascii.character_set), depth)
                           ELSE 0>>]
    /\ UNCHANGED ascii
    /\ GlIdle

GlColorToAnsi(color) ==
    /\ out' = AsciiRenderer_color_to_ansi(ascii, color)
    /\ last' = [op |-> "color_to_ansi", ok |-> TRUE, args |-> <<color>>]
    /\ UNCHANGED ascii
    /\ GlIdle

NextGlyph ==
    \/ \E character_set \in CharacterSetInputs : GlSetCharacterSet(character_set)
    \/ \E enable \in BOOLEAN : GlSetColorEnabled(enable)
    \/ \E depth \in GlyphDepthInputs : GlDepthToChar(depth)
    \/ \E color \in ColorInputs : GlColorToAnsi(color)

SpecGlyphInit ==
    /\ ascii = AsciiRenderer_new(1, 1)
    /\ image = NoRenderer
    /\ cam = Camera_new
    /\ out = NoOut
    /\ last = NoLast
    /\ db = NoDb
    /\ offered = NoOffered
    /\ proj = NoProj
    /\ steps = 0
    /\ viewer = NoViewer

SpecGlyph == SpecGlyphInit /\ [][NextGlyph]_vars

\* C14: for a set of two glyphs or more the index used is inside the visible
\* range and selects the glyph returned; depth 0 gives the last glyph, every
\* depth >= 0.95 the first visible glyph; of two calls under the same set the
\* one with the greater depth never gets the later glyph.  A set of one glyph
\* gives that glyph.
C14_DepthToCharMonotonic ==
    [][last'.op = "depth_to_char" =>
        LET chars == CharacterSet_chars(ascii.character_set)
            depth == last'.args[1]
            index == last'.args[2]
        IN  /\ Len(chars) = 1 => out' = <<chars[1]>>
            /\ Len(chars) >= 2 =>
                  /\ index \in 0..(Len(chars) - 2)
                  /\ out' = <<chars[index + 2]>>
                  /\ depth = R(0) => index = Len(chars) - 2
                  /\ RGe(depth, PRACTICAL_FAR) => index = 0
                  /\ last.op = "depth_to_char" /\ RLt(last.args[1], depth)
                        => index <= last.args[2]
                  /\ last.op = "depth_to_char" /\ RLt(depth, last.args[1])
                        => index >= last.args[2]
    ]_vars

\* C14 witness: a depth strictly between 0 and 0.95 got a glyph strictly
\* inside the visible ramp of the standard set.
C14_Witness ==
    /\ last.op = "depth_to_char"
    /\ RLt(R(0), last.args[1]) /\ RLt(last.args[1], PRACTICAL_FAR)
    /\ last.args[2] > 0
    /\ last.args[2] < Len(CharacterSet_chars(ascii.character_set)) - 2
    /\ out = <<"=">>

\* C15 (as claimed): under every character set, depth_to_char never returns
\* the first glyph of the set.
C15_NeverFirstGlyph ==
    [][last'.op = "depth_to_char" /\ CharacterSet_chars(ascii.character_set) # <<>> =>
          out' # <<CharacterSet_chars(ascii.character_set)[1]>>
      ]_vars

\* C15 (amended): under every character set of two glyphs or more,
\* depth_to_char returns a glyph at a position after the first, which differs
\* from the first glyph unless the set repeats its first glyph.
C15_NeverFirstPosition ==
    [][last'.op = "depth_to_char" /\ Len(CharacterSet_chars(ascii.character_set)) >= 2 =>
        LET chars == CharacterSet_chars(ascii.character_set)
        IN  /\ \E i \in 2..Len(chars) : out' = <<chars[i]>>
            /\ (\A i \in 2..Len(chars) : chars[i] # chars[1]) => out' # <<chars[1]>>
    ]_vars

\* C15 witness: the maximum depth got the second glyph of a preset, not the
\* glyph reserved for the background.
C15_Witness ==
    /\ last.op = "depth_to_char"
    /\ last.args[1] = R(1)
    /\ ascii.character_set = CharacterSet_Blocks
    /\ out = <<"light shade">>

\* the level of an 8-bit channel: floor(channel * 5 / 255)
QuantizedLevel(channel) == (channel * 5) \div 255

\* C16: with colour enabled color_to_ansi emits the escape sequence of palette
\* index 16 + 36*r + 6*g + b for the levels r, g, b in 0..5 of the channels;
\* the index is in 16..231 and no step of its computation exceeds 255; with
\* colour disabled it emits nothing.
C16_ColorToAnsi ==
    [][last'.op = "color_to_ansi" =>
        LET r == QuantizedLevel(last'.args[1].r)
            g == QuantizedLevel(last'.args[1].g)
            b == QuantizedLevel(last'.args[1].b)
        IN  IF ascii.use_color
            THEN /\ {r, g, b} \subseteq 0..5
                 /\ {ColorLevel(last'.args[1].r), ColorLevel(last'.args[1].g),
                      ColorLevel(last'.args[1].b)} \subseteq 0..5
                 /\ 36 * r <= 255 /\ 6 * g <= 255
                 /\ 16 + 36 * r + 6 * g + b \in 16..231
                 /\ out' = <<"ESC", "[", "3", "8", ";", "5", ";">>
                           \o Decimal(16 + 36 * r + 6 * g + b) \o <<"m">>
            ELSE out' = <<>>
    ]_vars

\* C16 witness: white was mapped to the last palette index of the colour cube.
C16_Witness ==
    /\ last.op = "color_to_ansi"
    /\ last.args[1] = WHITE
    /\ ascii.use_color
    /\ out = <<"ESC", "[", "3", "8", ";", "5", ";", "2", "3", "1", "m">>

----------------------------------------------------------------------------
(* Specification SpecDraw: the three drawing primitives of one             *)
(* ImageRenderer, called on one image buffer with centres inside, on the   *)
(* edge of, and outside the image.                                         *)

\* left of / above the image, inside it, and right of / below it
CenterInputs == {R(-5), R(0), <<3, 2>>, <<7, 2>>}

SizeInputs == {R(1), <<3, 2>>}

DrIdle == UNCHANGED <<db, offered, cam, proj, ascii, image, steps, viewer>>

\* a primitive returned: the buffer it drew on, and the pixels it passed to put_pixel
DrDrawn(op, x, y, size, writes) ==
    /\ out' = PutPixels(out, writes, RED)
    /\ last' = [op |-> op, ok |-> TRUE, args |-> <<x, y, size, writes>>]

DrNewImage ==
    /\ out' = Grid(image.width, image.height, image.background_color)
    /\ last' = [op |-> "RgbImage::new", ok |-> TRUE, args |-> <<>>]
    /\ DrIdle

DrDrawPointPixel(x, y) ==
    /\ DrDrawn("draw_point_pixel", x, y, R(1),
               ImageRenderer_draw_point_pixel_writes(image, x, y))
    /\ DrIdle

DrDrawPointSquare(x, y, size) ==
    /\ DrDrawn("draw_point_square", x, y, size,
               ImageRenderer_draw_point_square_writes(image, x, y, size))
    /\ DrIdle

DrDrawPoint(x, y, size) ==
    /\ DrDrawn("draw_point", x, y, size,
               ImageRenderer_draw_point_writes(image, x, y, size))
    /\ DrIdle

NextDraw ==
    \/ DrNewImage
    \/ \E x \in CenterInputs, y \in CenterInputs : DrDrawPointPixel(x, y)
    \/ \E x \in CenterInputs, y \in CenterInputs, size \in SizeInputs :
          DrDrawPointSquare(x, y, size)
    \/ \E x \in CenterInputs, y \in CenterInputs, size \in SizeInputs :
          DrDrawPoint(x, y, size)

SpecDrawInit ==
    /\ \E w \in 1..MaxDim, h \in 1..MaxDim :
          /\ image = ImageRenderer_new(w, h)
          /\ out = Grid(w, h, BLACK)
    /\ ascii = NoRenderer
    /\ cam = Camera_new
    /\ last = NoLast
    /\ db = NoDb
    /\ offered = NoOffered
    /\ proj = NoProj
    /\ steps = 0
    /\ viewer = NoViewer

SpecDraw == SpecDrawInit /\ [][NextDraw]_vars

\* the candidate pixels of a primitive: the pixel nearest to the centre for
\* draw_point_pixel, the square (circle) of half-width (radius) max(size, 1)
\* around the truncated centre for draw_point_square (draw_point)
CandidatePixels(op, x, y, size) ==
    LET n == RCeil(RMax(size, R(1)))
        square == { <<AsI32(x) + d[1], AsI32(y) + d[2]>> : d \in Offsets(n) }
    IN  CASE op = "draw_point_pixel" -> { <<RoundedInt(x), RoundedInt(y)>> }
          [] op = "draw_point_square" -> square
          [] op = "draw_point" ->
                { c \in square :
                    RLe(R((c[1] - AsI32(x)) * (c[1] - AsI32(x))
                          + (c[2] - AsI32(y)) * (c[2] - AsI32(y))),
                        RMul(RMax(size, R(1)), RMax(size, R(1)))) }

\* C17: each primitive writes exactly its candidate pixels that lie inside the
\* image: nothing is written outside 0 <= x < width, 0 <= y < height, and a
\* candidate outside the image is skipped, not written at another pixel.
C17_DrawInsideImage ==
    [][last'.op \in {"draw_point_pixel", "draw_point_square", "draw_point"} =>
        LET writes == last'.args[4]
            candidates == CandidatePixels(last'.op, last'.args[1], last'.args[2],
                                          last'.args[3])
        IN  /\ \A c \in writes : c[1] \in 0..(image.width - 1) /\ c[2] \in 0..(image.height - 1)
            /\ writes = { c \in candidates : PixelInImage(image, c[1], c[2]) }
            /\ \A px \in 1..image.width, py \in 1..image.height :
                  out'[py][px] = IF <<px - 1, py - 1>> \in writes THEN RED ELSE out[py][px]
    ]_vars

----------------------------------------------------------------------------
(* Specification SpecAxes: an AxesConfig is built with the builder methods  *)
(* and handed to Axes::new(config).generate_points().  out is the pair of  *)
(* the config built so far and the segments generated from it.             *)

MaxHalfUnits == 4

\* lengths and resolutions 1/2, 1, 3/2, ...: products below 1, in [1, 2) and above
HalfUnitInputs == { RNorm(k, 2) : k \in 1..MaxHalfUnits }

TickSpacingInputs == {R(0), <<1, 2>>, R(1)}

TickLengthInputs == {<<1, 10>>, R(1)}

ConfigOps == {"AxesConfig::new", "with_length", "with_resolution", "with_ticks", "with_features"}

AxIdle == UNCHANGED <<db, offered, cam, proj, ascii, image, steps, viewer>>

AxBuilt(config) == [config |-> config, segments |-> <<>>]

AxNewConfig ==
    /\ out' = AxBuilt(AxesConfig_new)
    /\ last' = [op |-> "AxesConfig::new", ok |-> TRUE, args |-> <<>>]
    /\ AxIdle

AxWithLength(length) ==
    /\ last.op \in ConfigOps
    /\ out' = AxBuilt(AxesConfig_with_length(out.config, length))
    /\ last' = [op |-> "with_length", ok |-> TRUE, args |-> <<length>>]
    /\ AxIdle

AxWithResolution(points_per_unit) ==
    /\ last.op \in ConfigOps
    /\ out' = AxBuilt(AxesConfig_with_resolution(out.config, points_per_unit))
    /\ last' = [op |-> "with_resolution", ok |-> TRUE, args |-> <<points_per_unit>>]
    /\ AxIdle

AxWithTicks(spacing, length) ==
    /\ last.op \in ConfigOps
    /\ out' = AxBuilt(AxesConfig_with_ticks(out.config, spacing, length))
    /\ last' = [op |-> "with_ticks", ok |-> TRUE, args |-> <<spacing, length>>]
    /\ AxIdle

AxWithFeatures(ticks, arrows, labels) ==
    /\ last.op \in ConfigOps
    /\ out' = AxBuilt(AxesConfig_with_features(out.config, ticks, arrows, labels))
    /\ last' = [op |-> "with_features", ok |-> TRUE, args |-> <<ticks, arrows, labels>>]
    /\ AxIdle

\* Axes::new(config).generate_points()
AxGeneratePoints ==
    /\ last.op \in ConfigOps
    /\ out' = [out EXCEPT !.segments = Axes_generate_segments(out.config)]
    /\ last' = [op |-> "generate_points", ok |-> TRUE, args |-> <<>>]
    /\ AxIdle

NextAxes ==
    \/ AxNewConfig
    \/ \E length \in HalfUnitInputs : AxWithLength(length)
    \/ \E points_per_unit \in HalfUnitInputs : AxWithResolution(points_per_unit)
    \/ \E spacing \in TickSpacingInputs, length \in TickLengthInputs :
          AxWithTicks(spacing, length)
    \/ \E ticks \in BOOLEAN, arrows \in BOOLEAN, labels \in BOOLEAN :
          AxWithFeatures(ticks, arrows, labels)
    \/ AxGeneratePoints

SpecAxesInit ==
    /\ out = AxBuilt(NoAxes)
    /\ last = NoLast
    /\ ascii = NoRenderer
    /\ image = NoRenderer
    /\ cam = Camera_new
    /\ db = NoDb
    /\ offered = NoOffered
    /\ proj = NoProj
    /\ steps = 0
    /\ viewer = NoViewer

SpecAxes == SpecAxesInit /\ [][NextAxes]_vars

LineKinds == {"axis line", "tick mark", "arrow wing", "label stroke"}

\* C20: for a configuration with positive length and positive points_per_unit,
\* every line segment generate_points emits (main axis line, tick mark, arrow
\* wing line, label stroke) has at least 2 points, and the points are a
\* function of the configuration alone.
C20_SegmentsHaveTwoPoints ==
    [][(/\ last'.op = "generate_points"
        /\ RGt(out'.config.length, R(0))
        /\ RGt(out'.config.points_per_unit, R(0)))
       => /\ \A k \in 1..Len(out'.segments) :
                out'.segments[k].kind \in LineKinds => Len(out'.segments[k].points) >= 2
          /\ out'.segments = Axes_generate_segments(out'.config)
    ]_vars

----------------------------------------------------------------------------
(* The terminal viewer's Screen (graphics.rs): a grid of booleans, content *)
(* a sequence of rows; cell (x, y) of the code is content[y + 1][x + 1].   *)

Point2D(x, y) == [x |-> x, y |-> y]

BraillePixel_new == [sy \in 1..4 |-> [sx \in 1..2 |-> FALSE]]

Bit(b, n) == IF b THEN 2 ^ n ELSE 0

\* the bits are disjoint, so the ors of the code add up
BraillePixel_to_char(data) ==
    Bit(data[1][1], 0) + Bit(data[2][1], 1) + Bit(data[3][1], 2)
    + Bit(data[1][2], 3) + Bit(data[2][2], 4) + Bit(data[3][2], 5)
    + Bit(data[4][1], 6) + Bit(data[4][2], 7)
    + 40 * 256

Screen_new == [width |-> 0, height |-> 0, content |-> <<>>]

Screen_write_in_bounds(s, point) ==
    /\ 0 < point.x /\ point.x < s.width
    /\ 0 < point.y /\ point.y < s.height

Screen_write(s, val, point) ==
    IF Screen_write_in_bounds(s, point)
    THEN [s EXCEPT !.content[point.y + 1][point.x + 1] = val]
    ELSE s

Screen_clear(s) == [s EXCEPT !.content = Fill(s.height, Fill(s.width, FALSE))]

\* Vec::truncate
Truncate(v, len) == IF Len(v) > len THEN SubSeq(v, 1, len) ELSE v

\* the rows after the height is adjusted: new rows have the new width
ResizedRows(s, width, height) ==
    IF height > s.height
    THEN s.content \o Fill(height - s.height, Fill(width, FALSE))
    ELSE Truncate(s.content, height)

\* the rows after the width is adjusted: every row, the new ones included
ResizedColumns(rows, old_width, width) ==
    [i \in 1..Len(rows) |->
        IF width > old_width THEN rows[i] \o Fill(width - old_width, FALSE)
        ELSE Truncate(rows[i], width)]

Screen_resize(s, width, height) ==
    [width |-> width, height |-> height,
     content |-> ResizedColumns(ResizedRows(s, width, height), s.width, width)]

\* u16 arithmetic of fit_to_terminal; the terminal sizes modelled stay in range
Screen_fit_to_terminal(s, terminal_width, terminal_height) ==
    Screen_resize(s, terminal_width * 2, (terminal_height - 1) * 4)

DivCeil(a, b) == (a + b - 1) \div b

\* content.chunks(4): the rows of glyph row g
SubRows(s, g) == SubSeq(s.content, 4 * g - 3, IF 4 * g < Len(s.content) THEN 4 * g ELSE Len(s.content))

\* a subrow indexes real_row out of range: a chunk beyond the last glyph, or no glyph at all
SubRowPanics(subrow, real_row_width) ==
    \/ Len(subrow) \div 2 > real_row_width
    \/ real_row_width = 0

\* the sub-cell [real_x][subpixel_y][sx] after the chunks and the remainder of the
\* subrow are copied (real_x, sx from 1)
SubCell(subrow, real_row_width, real_x, sx) ==
    IF sx = 1 /\ real_x = real_row_width /\ Len(subrow) % 2 = 1 THEN subrow[Len(subrow)]
    ELSE IF real_x <= Len(subrow) \div 2 THEN subrow[2 * (real_x - 1) + sx]
    ELSE FALSE

GlyphRow(subrows, real_row_width) ==
    [real_x \in 1..real_row_width |->
        BraillePixel_to_char(
            [sy \in 1..4 |-> [sx \in 1..2 |->
                IF sy <= Len(subrows)
                THEN SubCell(subrows[sy], real_row_width, real_x, sx)
                ELSE FALSE]])]

\* Screen::render: the glyph rows printed, or a panic on an index out of range
RenderedRows(s, real_row_width) ==
    IF \E i \in 1..Len(s.content) : SubRowPanics(s.content[i], real_row_width)
    THEN [panicked |-> TRUE, rows |-> <<>>]
    ELSE [panicked |-> FALSE,
          rows |-> [g \in 1..DivCeil(Len(s.content), 4) |->
                       GlyphRow(SubRows(s, g), real_row_width)]]

Screen_render(s) == RenderedRows(s, DivCeil(s.width, 2))

----------------------------------------------------------------------------
(* Specification SpecScreen: one Screen under resize, fit_to_terminal,      *)
(* clear, write and render, and BraillePixel::to_char on every block.       *)
(* viewer is [screen, panicked]; a panic ends the run and Screen::new       *)
(* starts another.                                                          *)

MaxScreenWidth == 3

MaxScreenHeight == 5

MaxWrites == 1

ScreenPointInputs ==
    { Point2D(x, y) : x \in -1..MaxScreenWidth, y \in -1..MaxScreenHeight }

BlockInputs == [1..4 -> [1..2 -> BOOLEAN]]

TerminalInputs == {<<1, 1>>, <<1, 2>>, <<2, 2>>}

ScIdle == UNCHANGED <<db, offered, cam, proj, ascii, image>>

ScNew ==
    /\ viewer' = [screen |-> Screen_new, panicked |-> FALSE]
    /\ last' = [op |-> "Screen::new", ok |-> TRUE, args |-> <<>>]
    /\ out' = NoOut
    /\ steps' = 0
    /\ ScIdle

ScResize(width, height) ==
    /\ ~viewer.panicked
    /\ viewer' = [viewer EXCEPT !.screen = Screen_resize(@, width, height)]
    /\ last' = [op |-> "resize", ok |-> TRUE, args |-> <<width, height>>]
    /\ out' = NoOut
    /\ steps' = 0
    /\ ScIdle

ScFitToTerminal(terminal) ==
    /\ ~viewer.panicked
    /\ viewer' = [viewer EXCEPT
                     !.screen = Screen_fit_to_terminal(@, terminal[1], terminal[2])]
    /\ last' = [op |-> "fit_to_terminal", ok |-> TRUE, args |-> terminal]
    /\ out' = NoOut
    /\ steps' = 0
    /\ ScIdle

ScClear ==
    /\ ~viewer.panicked
    /\ viewer' = [viewer EXCEPT !.screen = Screen_clear(@)]
    /\ last' = [op |-> "clear", ok |-> TRUE, args |-> <<>>]
    /\ out' = NoOut
    /\ steps' = 0
    /\ ScIdle

ScWrite(val, point) ==
    /\ ~viewer.panicked
    /\ steps < MaxWrites
    /\ viewer' = [viewer EXCEPT !.screen = Screen_write(@, val, point)]
    /\ last' = [op |-> "write", ok |-> TRUE, args |-> <<val, point>>]
    /\ out' = NoOut
    /\ steps' = steps + 1
    /\ ScIdle

ScRender ==
    /\ ~viewer.panicked
    /\ viewer' = [viewer EXCEPT !.panicked = Screen_render(viewer.screen).panicked]
    /\ last' = [op |-> "render", ok |-> ~Screen_render(viewer.screen).panicked,
                args |-> <<>>]
    /\ out' = Screen_render(viewer.screen).rows
    /\ UNCHANGED steps
    /\ ScIdle

\* to_char on a block of its own, before the screen is sized
ScToChar(data) ==
    /\ viewer.screen = Screen_new
    /\ ~viewer.panicked
    /\ out' = <<<<BraillePixel_to_char(data)>>>>
    /\ last' = [op |-> "to_char", ok |-> TRUE, args |-> <<data>>]
    /\ UNCHANGED <<viewer, steps>>
    /\ ScIdle

NextScreen ==
    \/ ScNew
    \/ \E width \in 0..MaxScreenWidth, height \in 0..MaxScreenHeight : ScResize(width, height)
    \/ \E terminal \in TerminalInputs : ScFitToTerminal(terminal)
    \/ ScClear
    \/ \E val \in BOOLEAN, point \in ScreenPointInputs : ScWrite(val, point)
    \/ ScRender
    \/ \E data \in BlockInputs : ScToChar(data)

SpecScreenInit ==
    /\ viewer = [screen |-> Screen_new, panicked |-> FALSE]
    /\ last = NoLast
    /\ out = NoOut
    /\ ascii = NoRenderer
    /\ image = NoRenderer
    /\ cam = Camera_new
    /\ db = NoDb
    /\ offered = NoOffered
    /\ proj = NoProj
    /\ steps = 0

SpecScreen == SpecScreenInit /\ [][NextScreen]_vars

\* a point of the grid, column 0 and row 0 included
InsideGrid(s, point) ==
    /\ 0 <= point.x /\ point.x < s.width
    /\ 0 <= point.y /\ point.y < s.height

\* C29: Screen::write(val, p) sets cell (p.x, p.y) to val exactly when
\* 0 <= p.x < width and 0 <= p.y < height, column 0 and row 0 included, and
\* changes nothing for a point outside those bounds.
C29_WriteInBounds ==
    [][ (last'.op = "write" /\ steps' = steps + 1)
        => viewer'.screen =
             IF InsideGrid(viewer.screen, last'.args[2])
             THEN [viewer.screen EXCEPT
                     !.content[last'.args[2].y + 1][last'.args[2].x + 1] = last'.args[1]]
             ELSE viewer.screen
      ]_vars

GridWellFormed(s) ==
    /\ Len(s.content) = s.height
    /\ \A i \in 1..Len(s.content) : Len(s.content[i]) = s.width

\* C26: after any sequence of resize and clear the grid has exactly height
\* rows of exactly width cells each, also right after a resize that grows
\* width and height together, and render after it never indexes out of range.
C26_GridWellFormed ==
    /\ GridWellFormed(viewer.screen)
    /\ ~viewer.panicked

\* the code point the fixed bit positions give: left column rows 0,1,2 are
\* bits 0,1,2, right column rows 0,1,2 are bits 3,4,5, row 3 is bits 6 and 7
BlockCodePoint(data) ==
    10240
    + Bit(data[1][1], 0) + Bit(data[2][1], 1) + Bit(data[3][1], 2)
    + Bit(data[1][2], 3) + Bit(data[2][2], 4) + Bit(data[3][2], 5)
    + Bit(data[4][1], 6) + Bit(data[4][2], 7)

\* C22: to_char maps a block to 0x2800 plus one bit per active sub-cell at
\* the fixed positions, one to one onto U+2800..U+28FF, the empty block to
\* U+2800; render emits ceil(height/4) rows of ceil(width/2) glyphs.
C22_BraillePacking ==
    /\ last.op = "to_char" =>
          /\ out[1][1] = BlockCodePoint(last.args[1])
          /\ out[1][1] \in 10240..10495
          /\ last.args[1] = BraillePixel_new => out[1][1] = 10240
          /\ \A data \in BlockInputs :
                BraillePixel_to_char(data) = out[1][1] => data = last.args[1]
    /\ last.op = "render" =>
          /\ last.ok
          /\ Len(out) = DivCeil(viewer.screen.height, 4)
          /\ \A g \in 1..Len(out) : Len(out[g]) = DivCeil(viewer.screen.width, 2)

----------------------------------------------------------------------------
(* Screen::line (graphics.rs): the Bresenham loop on i32 coordinates, one   *)
(* iteration at a time. An i32 operation that overflows panics in a build   *)
(* with overflow checks (debug) and wraps in a build without (release).     *)

I32_MAX == 2147483647

I32_MIN == -I32_MAX - 1

Builds == {"debug", "release"}

\* an i32 result: the value of the wrapping operation and whether it overflowed
I32(v, overflow) == [v |-> v, overflow |-> overflow]

I32Add(a, b) ==
    IF b > 0 /\ a > I32_MAX - b THEN I32((a - I32_MAX) + (b + I32_MIN) - 1, TRUE)
    ELSE IF b < 0 /\ a < I32_MIN - b THEN I32((a - I32_MIN) + (b + I32_MAX) + 1, TRUE)
    ELSE I32(a + b, FALSE)

I32Sub(a, b) ==
    IF b > 0 /\ a < I32_MIN + b THEN I32((a - I32_MIN) + (I32_MAX - b) + 1, TRUE)
    ELSE IF b < 0 /\ a > I32_MAX + b THEN I32((a - I32_MAX) + (I32_MIN - b) - 1, TRUE)
    ELSE I32(a - b, FALSE)

I32Neg(a) == IF a = I32_MIN THEN I32(I32_MIN, TRUE) ELSE I32(-a, FALSE)

\* i32::abs
I32Abs(a) == IF a < 0 THEN I32Neg(a) ELSE I32(a, FALSE)

\* (end - start).abs()
I32AbsOf(d) == I32(I32Abs(d.v).v, d.overflow \/ I32Abs(d.v).overflow)

\* -(end - start).abs()
I32NegOf(d) == I32(I32Neg(d.v).v, d.overflow \/ I32Neg(d.v).overflow)

NoLine ==
    [active |-> FALSE, start |-> Point2D(0, 0), end |-> Point2D(0, 0),
     x |-> 0, y |-> 0, err |-> 0, delta_x |-> 0, delta_y |-> 0,
     step_x |-> 1, step_y |-> 1, overflow |-> FALSE, iterations |-> 0, path |-> {}]

\* the locals of line when the loop is entered
LineLocals(start, end, delta_x, delta_y, err) ==
    [active |-> TRUE, start |-> start, end |-> end,
     x |-> start.x, y |-> start.y, err |-> err.v,
     delta_x |-> delta_x.v, delta_y |-> delta_y.v,
     step_x |-> IF start.x < end.x THEN 1 ELSE -1,
     step_y |-> IF start.y < end.y THEN 1 ELSE -1,
     overflow |-> delta_x.overflow \/ delta_y.overflow \/ err.overflow,
     iterations |-> 0, path |-> {start}]

LineDeltas(start, end, delta_x, delta_y) ==
    LineLocals(start, end, delta_x, delta_y, I32Add(delta_x.v, delta_y.v))

Screen_line_enter(start, end) ==
    LineDeltas(start, end,
               I32AbsOf(I32Sub(end.x, start.x)),
               I32NegOf(I32AbsOf(I32Sub(end.y, start.y))))

\* the loop condition
Screen_line_running(l) == ~(l.x = l.end.x /\ l.y = l.end.y)

LineMoved(l, err, x, y, overflow) ==
    [l EXCEPT !.err = err, !.x = x, !.y = y, !.overflow = overflow,
              !.iterations = @ + 1, !.path = @ \cup {Point2D(x, y)}]

\* if 2 * curr_err <= delta_x { err += delta_x; y += step_y }
LineStepY(l, twice, err, x, overflow) ==
    IF twice.v <= l.delta_x
    THEN LineMoved(l, I32Add(err, l.delta_x).v, x, I32Add(l.y, l.step_y).v,
                   overflow \/ I32Add(err, l.delta_x).overflow
                            \/ I32Add(l.y, l.step_y).overflow)
    ELSE LineMoved(l, err, x, l.y, overflow)

\* if 2 * curr_err >= delta_y { err += delta_y; x += step_x }
LineStepX(l, twice) ==
    IF twice.v >= l.delta_y
    THEN LineStepY(l, twice, I32Add(l.err, l.delta_y).v, I32Add(l.x, l.step_x).v,
                   twice.overflow \/ I32Add(l.err, l.delta_y).overflow
                                  \/ I32Add(l.x, l.step_x).overflow)
    ELSE LineStepY(l, twice, l.err, l.x, twice.overflow)

\* one iteration of the loop, after its write
Screen_line_iterate(l) == LineStepX(l, I32Add(l.err, l.err))

----------------------------------------------------------------------------
(* Specification SpecLine: Screen::line on a cleared grid of MaxLineCoord   *)
(* by MaxLineCoord cells, between points in and around the grid and at the  *)
(* ends of the i32 range. viewer is [screen, line, build, panicked]; the    *)
(* build is fixed for a behaviour.                                          *)

MaxLineCoord == 3

MaxLineSteps == 6

LineCoordInputs == (-1..MaxLineCoord) \cup {I32_MIN, I32_MAX}

LinePointInputs == { Point2D(x, y) : x \in LineCoordInputs, y \in LineCoordInputs }

LineScreen == Screen_clear(Screen_resize(Screen_new, MaxLineCoord, MaxLineCoord))

LnIdle == UNCHANGED <<db, offered, cam, proj, ascii, image, out, steps>>

\* a debug build panics on the overflow, a release build goes on with the wrapped value
LinePanics(build, l) == build = "debug" /\ l.overflow

LnNew ==
    /\ viewer' = [viewer EXCEPT !.screen = LineScreen, !.line = NoLine, !.panicked = FALSE]
    /\ last' = [op |-> "Screen::new", ok |-> TRUE, args |-> <<>>]
    /\ LnIdle

LnClear ==
    /\ ~viewer.panicked
    /\ ~viewer.line.active
    /\ viewer' = [viewer EXCEPT !.screen = Screen_clear(@), !.line = NoLine]
    /\ last' = [op |-> "clear", ok |-> TRUE, args |-> <<>>]
    /\ LnIdle

\* the call of line up to the loop: the locals and the first write
LnLine(start, end) ==
    /\ ~viewer.panicked
    /\ viewer.line = NoLine
    /\ viewer.screen = LineScreen
    /\ viewer' = [viewer EXCEPT
                     !.line = Screen_line_enter(start, end),
                     !.panicked = LinePanics(viewer.build, Screen_line_enter(start, end)),
                     !.screen = IF LinePanics(viewer.build, Screen_line_enter(start, end))
                                THEN @ ELSE Screen_write(@, TRUE, start)]
    /\ last' = [op |-> "line enter", ok |-> TRUE, args |-> <<start, end>>]
    /\ LnIdle

\* one iteration: the write of (x, y), then the steps
LnIterate ==
    /\ ~viewer.panicked
    /\ viewer.line.active
    /\ Screen_line_running(viewer.line)
    /\ viewer.line.iterations < MaxLineSteps
    /\ viewer' = [viewer EXCEPT
                     !.screen = Screen_write(@, TRUE, Point2D(viewer.line.x, viewer.line.y)),
                     !.line = Screen_line_iterate(@),
                     !.panicked = LinePanics(viewer.build, Screen_line_iterate(viewer.line))]
    /\ last' = [op |-> "line iterate", ok |-> TRUE, args |-> <<>>]
    /\ LnIdle

\* the loop condition fails and line returns
LnReturn ==
    /\ ~viewer.panicked
    /\ viewer.line.active
    /\ ~Screen_line_running(viewer.line)
    /\ viewer' = [viewer EXCEPT !.line.active = FALSE]
    /\ last' = [op |-> "line", ok |-> TRUE, args |-> <<viewer.line.start, viewer.line.end>>]
    /\ LnIdle

NextLine ==
    \/ LnNew
    \/ LnClear
    \/ \E start \in LinePointInputs, end \in LinePointInputs : LnLine(start, end)
    \/ LnIterate
    \/ LnReturn

SpecLineInit ==
    /\ viewer \in { [screen |-> LineScreen, line |-> NoLine, build |-> b, panicked |-> FALSE] :
                    b \in Builds }
    /\ last = NoLast
    /\ out = NoOut
    /\ ascii = NoRenderer
    /\ image = NoRenderer
    /\ cam = Camera_new
    /\ db = NoDb
    /\ offered = NoOffered
    /\ proj = NoProj
    /\ steps = 0

SpecLine == SpecLineInit /\ [][NextLine]_vars

\* v lies between a and b
Within(a, b, v) == (a <= v /\ v <= b) \/ (b <= v /\ v <= a)

\* |a - b| >= n for a small n, without leaving the integers of the checker
AtLeastApart(a, b, n) ==
    \/ a >= 0 /\ b < 0 /\ a > I32_MAX + b
    \/ b >= 0 /\ a < 0 /\ b > I32_MAX + a
    \/ ~(a >= 0 /\ b < 0 /\ a > I32_MAX + b) /\ ~(b >= 0 /\ a < 0 /\ b > I32_MAX + a)
       /\ Abs(a - b) >= n

\* C27: Screen::line terminates for every pair of integer points: it never
\* panics, (x, y) never steps past the end point, the loop runs at most
\* max(|end.x - start.x|, |end.y - start.y|) iterations and returns at the
\* end point, also for points outside the grid.
C27_LineTerminates ==
    /\ ~viewer.panicked
    /\ Within(viewer.line.start.x, viewer.line.end.x, viewer.line.x)
    /\ Within(viewer.line.start.y, viewer.line.end.y, viewer.line.y)
    /\ \/ AtLeastApart(viewer.line.start.x, viewer.line.end.x, viewer.line.iterations)
       \/ AtLeastApart(viewer.line.start.y, viewer.line.end.y, viewer.line.iterations)
    /\ last.op = "line" =>
          viewer.line.x = viewer.line.end.x /\ viewer.line.y = viewer.line.end.y

\* C28: after line(start, end) on a cleared grid every cell of the grid on
\* the path from start to end, the start cell and the end cell included, is
\* true, and every other cell is unchanged (false).
C28_LineMarksPath ==
    last.op = "line" =>
       \A x \in 0..(viewer.screen.width - 1), y \in 0..(viewer.screen.height - 1) :
          viewer.screen.content[y + 1][x + 1] = (Point2D(x, y) \in viewer.line.path)

----------------------------------------------------------------------------
(* The viewer's Camera (graphics.rs): Euler angles in units of pi, a point  *)
(* is <<x, y, z>>, the screen is the camera's field.                        *)

Graphics_Point3D(x, y, z) == <<x, y, z>>

\* f32::sin and f32::cos on the quarter turns (angle in units of pi), with
\* the values of the exact functions
SinPi(a) ==
    CASE a = <<0, 1>>  -> R(0)
      [] a = <<1, 2>>  -> R(1)
      [] a = <<1, 1>>  -> R(0)
      [] a = <<-1, 2>> -> R(-1)
      [] OTHER         -> NaN

CosPi(a) ==
    CASE a = <<0, 1>>  -> R(1)
      [] a = <<1, 2>>  -> R(0)
      [] a = <<1, 1>>  -> R(-1)
      [] a = <<-1, 2>> -> R(0)
      [] OTHER         -> NaN

\* f32 `as i32`: truncation toward zero, saturating, NaN gives 0
SaturatingI32(a) ==
    IF a[2] = 0 THEN (IF a[1] > 0 THEN I32_MAX ELSE IF a[1] < 0 THEN I32_MIN ELSE 0)
    ELSE AsI32(a)

GraphicsCamera_new(coordinates, yaw, pitch, roll, viewport_distance, viewport_fov) ==
    [coordinates |-> coordinates, yaw |-> yaw, pitch |-> pitch, roll |-> roll,
     viewport_distance |-> viewport_distance, viewport_fov |-> viewport_fov,
     screen |-> Screen_new]

\* undo roll
Unrolled(c, p) ==
    Graphics_Point3D(
        RSub(RMul(p[1], CosPi(c.roll)), RMul(p[2], SinPi(c.roll))),
        RAdd(RMul(p[1], SinPi(c.roll)), RMul(p[2], CosPi(c.roll))),
        p[3])

\* undo pitch
Unpitched(c, p) ==
    Graphics_Point3D(
        p[1],
        RSub(RMul(p[2], CosPi(c.pitch)), RMul(p[3], SinPi(c.pitch))),
        RAdd(RMul(p[2], SinPi(c.pitch)), RMul(p[3], CosPi(c.pitch))))

\* undo yaw
Unyawed(c, d) ==
    Graphics_Point3D(
        RSub(RMul(d[1], CosPi(c.yaw)), RMul(d[3], SinPi(c.yaw))),
        d[2],
        RAdd(RMul(d[1], SinPi(c.yaw)), RMul(d[3], CosPi(c.yaw))))

GraphicsCamera_world_to_camera(c, point) ==
    Unrolled(c, Unpitched(c, Unyawed(c, VSub(point, c.coordinates))))

ViewportWidth(c) == RMul(RMul(R(2), c.viewport_distance), Tan(RDiv(c.viewport_fov, R(2))))

ViewportHeight(c) == RMul(RDiv(R(c.screen.height), R(c.screen.width)), ViewportWidth(c))

GraphicsCamera_camera_to_screen(c, point) ==
    Point2D(
        SaturatingI32(RRound(RMul(
            RAdd(RDiv(RDiv(RMul(point[1], c.viewport_distance), point[3]), ViewportWidth(c)),
                 <<1, 2>>),
            R(c.screen.width)))),
        SaturatingI32(RRound(RMul(
            RSub(R(1),
                 RAdd(RDiv(RDiv(RMul(point[2], c.viewport_distance), point[3]), ViewportHeight(c)),
                      <<1, 2>>)),
            R(c.screen.height)))))

\* the loop of line run to its end (or to MaxLineSteps iterations)
RECURSIVE LineLoop(_, _)
LineLoop(s, l) ==
    IF ~Screen_line_running(l) \/ l.iterations >= MaxLineSteps
    THEN [screen |-> s, returned |-> ~Screen_line_running(l)]
    ELSE LineLoop(Screen_write(s, TRUE, Point2D(l.x, l.y)), Screen_line_iterate(l))

Screen_line(s, start, end) ==
    LineLoop(Screen_write(s, TRUE, start), Screen_line_enter(start, end))

GraphicsCamera_plot_point_at(c, camera_point) ==
    IF RGe(camera_point[3], c.viewport_distance)
    THEN Screen_write(c.screen, TRUE, GraphicsCamera_camera_to_screen(c, camera_point))
    ELSE c.screen

GraphicsCamera_plot_point(c, point) ==
    GraphicsCamera_plot_point_at(c, GraphicsCamera_world_to_camera(c, point))

\* new_clipped: lambda * delta + clipped, at z = viewport_distance
NewClipped(c, clipped, delta, lambda) ==
    Graphics_Point3D(
        RAdd(RMul(lambda, delta[1]), clipped[1]),
        RAdd(RMul(lambda, delta[2]), clipped[2]),
        c.viewport_distance)

ClippedLine(c, clipped, unclipped) ==
    Screen_line(c.screen,
        GraphicsCamera_camera_to_screen(c,
            NewClipped(c, clipped, VSub(unclipped, clipped),
                       RDiv(RSub(c.viewport_distance, clipped[3]),
                            RSub(unclipped[3], clipped[3])))),
        GraphicsCamera_camera_to_screen(c, unclipped))

\* plot_line without the clipping of the endpoint behind the viewport
GraphicsCamera_plot_line_at_NoClip(c, camera_start, camera_end, clip_start, clip_end) ==
    IF clip_start /\ clip_end THEN [screen |-> c.screen, returned |-> TRUE]
    ELSE Screen_line(c.screen, GraphicsCamera_camera_to_screen(c, camera_start),
                               GraphicsCamera_camera_to_screen(c, camera_end))

GraphicsCamera_plot_line_at(c, camera_start, camera_end, clip_start, clip_end) ==
    IF clip_start /\ clip_end THEN [screen |-> c.screen, returned |-> TRUE]
    ELSE IF ~clip_start /\ ~clip_end
    THEN Screen_line(c.screen, GraphicsCamera_camera_to_screen(c, camera_start),
                               GraphicsCamera_camera_to_screen(c, camera_end))
    ELSE IF clip_start THEN ClippedLine(c, camera_start, camera_end)
    ELSE ClippedLine(c, camera_end, camera_start)

GraphicsCamera_plot_line_from(c, camera_start, camera_end) ==
    GraphicsCamera_plot_line_at(c, camera_start, camera_end,
                                RLt(camera_start[3], c.viewport_distance),
                                RLt(camera_end[3], c.viewport_distance))

GraphicsCamera_plot_line(c, start, end) ==
    GraphicsCamera_plot_line_from(c, GraphicsCamera_world_to_camera(c, start),
                                     GraphicsCamera_world_to_camera(c, end))

----------------------------------------------------------------------------
(* Specification SpecPlot: one Camera of the viewer through the frames of   *)
(* the main loop: the pose is set, the screen is fitted and cleared, and    *)
(* points and lines are plotted. viewer is [camera, returned].              *)

MaxPlots == 1

WorldPointInputs ==
    { Graphics_Point3D(R(x), R(y), R(z)) : x \in {-1, 1}, y \in {0, 1}, z \in {0, 1, 2} }

ViewportDistanceInputs == {R(1), <<1, 2>>}

\* coordinates, yaw, pitch
PoseInputs ==
    { <<Graphics_Point3D(R(0), R(0), R(0)), R(0), R(0)>>,
      <<Graphics_Point3D(R(0), R(0), R(-1)), R(0), <<1, 2>>>>,
      <<Graphics_Point3D(R(-1), R(0), R(0)), <<1, 2>>, R(0)>> }

PlotTerminalInputs == {<<2, 2>>}

PlIdle == UNCHANGED <<db, offered, cam, proj, ascii, image, out>>

\* Camera::new as run_application calls it: angles 0, a quarter-turn field of view
PlNew(viewport_distance) ==
    /\ viewer' = [camera |-> GraphicsCamera_new(Graphics_Point3D(R(0), R(0), R(0)),
                                                R(0), R(0), R(0),
                                                viewport_distance, <<1, 2>>),
                  returned |-> TRUE]
    /\ last' = [op |-> "Camera::new", ok |-> TRUE, args |-> <<viewport_distance>>]
    /\ steps' = 0
    /\ PlIdle

\* the camera update of a frame, then fit_to_terminal and clear
PlFrame(pose, terminal) ==
    /\ viewer.returned
    /\ viewer' = [viewer EXCEPT
                     !.camera.coordinates = pose[1],
                     !.camera.yaw = pose[2],
                     !.camera.pitch = pose[3],
                     !.camera.screen =
                         Screen_clear(Screen_fit_to_terminal(@, terminal[1], terminal[2]))]
    /\ last' = [op |-> "frame", ok |-> TRUE, args |-> <<pose, terminal>>]
    /\ steps' = 0
    /\ PlIdle

PlPlotPoint(point) ==
    /\ viewer.returned
    /\ steps < MaxPlots
    /\ viewer' = [viewer EXCEPT
                     !.camera.screen = GraphicsCamera_plot_point(viewer.camera, point)]
    /\ last' = [op |-> "plot_point", ok |-> TRUE, args |-> <<point>>]
    /\ steps' = steps + 1
    /\ PlIdle

PlPlotLine(start, end) ==
    /\ viewer.returned
    /\ steps < MaxPlots
    /\ \E drawn \in {GraphicsCamera_plot_line(viewer.camera, start, end)} :
          viewer' = [viewer EXCEPT !.camera.screen = drawn.screen,
                                   !.returned = drawn.returned]
    /\ last' = [op |-> "plot_line", ok |-> TRUE, args |-> <<start, end>>]
    /\ steps' = steps + 1
    /\ PlIdle

NextPlot ==
    \/ \E viewport_distance \in ViewportDistanceInputs : PlNew(viewport_distance)
    \/ \E pose \in PoseInputs, terminal \in PlotTerminalInputs : PlFrame(pose, terminal)
    \/ \E point \in WorldPointInputs : PlPlotPoint(point)
    \/ \E start \in WorldPointInputs, end \in WorldPointInputs : PlPlotLine(start, end)

SpecPlotInit ==
    /\ viewer \in { [camera |-> GraphicsCamera_new(Graphics_Point3D(R(0), R(0), R(0)),
                                                   R(0), R(0), R(0), vd, <<1, 2>>),
                     returned |-> TRUE] : vd \in ViewportDistanceInputs }
    /\ last = NoLast
    /\ out = NoOut
    /\ ascii = NoRenderer
    /\ image = NoRenderer
    /\ cam = Camera_new
    /\ db = NoDb
    /\ offered = NoOffered
    /\ proj = NoProj
    /\ steps = 0

SpecPlot == SpecPlotInit /\ [][NextPlot]_vars

\* camera-space z behind the near viewport plane
BehindViewport(c, p) == RLt(p[3], c.viewport_distance)

\* the point of the segment from clipped to other at z = viewport_distance
AtViewport(c, clipped, other) ==
    VAdd(clipped,
         VScale(VSub(other, clipped),
                RDiv(RSub(c.viewport_distance, clipped[3]), RSub(other[3], clipped[3]))))

\* the grid the three cases of the near plane give for camera-space endpoints
NearPlaneCases(c, camera_start, camera_end) ==
    IF BehindViewport(c, camera_start) /\ BehindViewport(c, camera_end)
    THEN c.screen
    ELSE IF RGe(camera_start[3], c.viewport_distance) /\ RGe(camera_end[3], c.viewport_distance)
    THEN Screen_line(c.screen, GraphicsCamera_camera_to_screen(c, camera_start),
                               GraphicsCamera_camera_to_screen(c, camera_end)).screen
    ELSE IF BehindViewport(c, camera_start)
    THEN Screen_line(c.screen,
             GraphicsCamera_camera_to_screen(c, AtViewport(c, camera_start, camera_end)),
             GraphicsCamera_camera_to_screen(c, camera_end)).screen
    ELSE Screen_line(c.screen,
             GraphicsCamera_camera_to_screen(c, AtViewport(c, camera_end, camera_start)),
             GraphicsCamera_camera_to_screen(c, camera_start)).screen

PointCase(c, camera_point) ==
    IF RGe(camera_point[3], c.viewport_distance)
    THEN Screen_write(c.screen, TRUE, GraphicsCamera_camera_to_screen(c, camera_point))
    ELSE c.screen

\* C21: plot_line treats the near viewport plane in three cases by the
\* camera-space z of its endpoints: both behind (z < viewport_distance)
\* leaves the grid unchanged; both at or beyond draws the line between the
\* two projected endpoints; exactly one behind replaces it by the point of
\* the segment at z = viewport_distance and draws from there to the other
\* endpoint. plot_point draws only when z >= viewport_distance.
C21_NearPlaneCases ==
    [][ /\ (last'.op = "plot_line" /\ steps' = steps + 1) =>
             viewer'.camera =
                [viewer.camera EXCEPT !.screen =
                    NearPlaneCases(viewer.camera,
                        GraphicsCamera_world_to_camera(viewer.camera, last'.args[1]),
                        GraphicsCamera_world_to_camera(viewer.camera, last'.args[2]))]
        /\ (last'.op = "plot_point" /\ steps' = steps + 1) =>
             viewer'.camera =
                [viewer.camera EXCEPT !.screen =
                    PointCase(viewer.camera,
                        GraphicsCamera_world_to_camera(viewer.camera, last'.args[1]))]
      ]_vars

\* a line with exactly one endpoint behind the viewport was plotted and left a mark
C21_Witness ==
    /\ last.op = "plot_line"
    /\ BehindViewport(viewer.camera, GraphicsCamera_world_to_camera(viewer.camera, last.args[1]))
       # BehindViewport(viewer.camera, GraphicsCamera_world_to_camera(viewer.camera, last.args[2]))
    /\ \E y \in 1..Len(viewer.camera.screen.content) :
          \E x \in 1..Len(viewer.camera.screen.content[y]) : viewer.camera.screen.content[y][x]

----------------------------------------------------------------------------
(* The viewer's PointCloud (graphics.rs): points read from a file and the   *)
(* axis decorations generated from them. A file is [readable, lines], a     *)
(* line a sequence of tokens (the result of split_whitespace), a token a    *)
(* sequence of characters.                                                  *)

Digits == <<"0", "1", "2", "3", "4", "5", "6", "7", "8", "9">>

\* str::parse::<f32> on the tokens of the model: a digit, with or without a sign
ParseF32(token) ==
    IF Len(token) = 1 /\ \E d \in 1..10 : Digits[d] = token[1]
    THEN [ok |-> TRUE, value |-> R((CHOOSE d \in 1..10 : Digits[d] = token[1]) - 1)]
    ELSE IF Len(token) = 2 /\ token[1] = "-" /\ \E d \in 1..10 : Digits[d] = token[2]
    THEN [ok |-> TRUE, value |-> R(1 - (CHOOSE d \in 1..10 : Digits[d] = token[2]))]
    ELSE [ok |-> FALSE, value |-> NaN]

\* line.is_empty() || line.starts_with('#'), on the trimmed line
LineSkipped(line) == Len(line) = 0 \/ line[1][1] = "#"

FileOk(points) == [ok |-> TRUE, points |-> points, error |-> "none"]

FileErr(error) == [ok |-> FALSE, points |-> <<>>, error |-> error]

\* the point of a line of three tokens: file z becomes the viewer's y
ParsedPoint(file_x, file_y, file_z) ==
    IF file_x.ok /\ file_y.ok /\ file_z.ok
    THEN FileOk(<<Graphics_Point3D(file_x.value, file_z.value, file_y.value)>>)
    ELSE FileErr("invalid float literal")

\* one line of the loop of from_file: nothing, one point, or the error returned
ParsedLine(line) ==
    IF LineSkipped(line) THEN FileOk(<<>>)
    ELSE IF Len(line) # 3 THEN FileErr("Invalid line format")
    ELSE ParsedPoint(ParseF32(line[1]), ParseF32(line[2]), ParseF32(line[3]))

\* the loop of from_file stopping at a bad line with the points read so far
RECURSIVE ParsedLines_Partial(_, _, _)
ParsedLines_Partial(lines, i, points) ==
    IF i > Len(lines) \/ ~ParsedLine(lines[i]).ok THEN FileOk(points)
    ELSE ParsedLines_Partial(lines, i + 1, points \o ParsedLine(lines[i]).points)

RECURSIVE ParsedLines(_, _, _)
ParsedLines(lines, i, points) ==
    IF i > Len(lines) THEN FileOk(points)
    ELSE IF ~ParsedLine(lines[i]).ok THEN ParsedLine(lines[i])
    ELSE ParsedLines(lines, i + 1, points \o ParsedLine(lines[i]).points)

\* the fold of f32::max over the norms of the points, from 0.0
RECURSIVE FoldNorms(_, _, _)
FoldNorms(points, i, acc) ==
    IF i > Len(points) THEN acc
    ELSE FoldNorms(points, i + 1, RMax(acc, VLength(points[i])))

\* max_distance of generate_axes
MaxDistance(points, i, acc) ==
    IF Len(points) = 0 THEN R(1)
    ELSE RMul(FoldNorms(points, i, acc), <<11, 10>>)

\* arrow_angle.cos() and arrow_angle.sin() for 0.5 rad, by nearby rationals
ArrowCos == <<7, 8>>

ArrowSin == <<12, 25>>

\* (x, y, z) / len when len > 0, the fallback otherwise
NormalizedOr(v, len, fallback) ==
    IF RGt(len, R(0)) THEN <<RDiv(v[1], len), RDiv(v[2], len), RDiv(v[3], len)>> ELSE fallback

\* the first perpendicular of the arrowhead
ArrowPerp1(dir) ==
    IF RLt(RAbs(dir[3]), <<9, 10>>)
    THEN NormalizedOr(<<RNeg(dir[2]), dir[1], R(0)>>,
                      RSqrt(RAdd(RMul(dir[2], dir[2]), RMul(dir[1], dir[1]))),
                      V3(1, 0, 0))
    ELSE NormalizedOr(<<R(0), RNeg(dir[3]), dir[2]>>,
                      RSqrt(RAdd(RMul(dir[3], dir[3]), RMul(dir[2], dir[2]))),
                      V3(0, 1, 0))

\* end - arrow_length * (dir * cos_angle + perp * sin_angle)
ArrowTip(end, dir, perp, arrow_length) ==
    VSub(end, VScale(VAdd(VScale(dir, ArrowCos), VScale(perp, ArrowSin)), arrow_length))

ArrowheadLines(end, dir, perp1, arrow_length) ==
    << <<end, ArrowTip(end, dir, perp1, arrow_length)>>,
       <<end, ArrowTip(end, dir, VCross(dir, perp1), arrow_length)>> >>

ArrowheadOfLength(end, delta, length, scale) ==
    IF length = R(0) THEN <<>>
    ELSE ArrowheadLines(end, NormalizedOr(delta, length, delta),
                        ArrowPerp1(NormalizedOr(delta, length, delta)),
                        RMul(scale, <<1, 20>>))

GraphicsPointCloud_generate_arrowhead(start, end, scale) ==
    ArrowheadOfLength(end, VSub(end, start), VLength(VSub(end, start)), scale)

GraphicsPointCloud_create_axis_decoration(start, end, scale) ==
    [axis_line |-> <<start, end>>,
     arrowhead_lines |-> GraphicsPointCloud_generate_arrowhead(start, end, scale)]

AxesOfLength(max_distance) ==
    << GraphicsPointCloud_create_axis_decoration(
           V3(0, 0, 0), <<max_distance, R(0), R(0)>>, max_distance),
       GraphicsPointCloud_create_axis_decoration(
           V3(0, 0, 0), <<R(0), max_distance, R(0)>>, max_distance),
       GraphicsPointCloud_create_axis_decoration(
           V3(0, 0, 0), <<R(0), R(0), max_distance>>, max_distance) >>

GraphicsPointCloud_generate_axes(points) == AxesOfLength(MaxDistance(points, 1, R(0)))

GraphicsPointCloud(points) ==
    [points |-> points, axes |-> GraphicsPointCloud_generate_axes(points)]

\* the files of the model, by path: two clouds, a point at the origin, a
\* file of comments, a malformed line after a good one, a token that is no
\* number, the two directive lines of the help text; any other path is
\* unreadable
FileAt(path) ==
    CASE path = <<"a">> ->
           [readable |-> TRUE,
            lines |-> << <<<<"1">>, <<"0">>, <<"0">>>>, <<>>, <<<<"#", "c">>>>,
                         <<<<"0">>, <<"2">>, <<"0">>>> >>]
      [] path = <<"b">> ->
           [readable |-> TRUE, lines |-> << <<<<"3">>, <<"4">>, <<"0">>>> >>]
      [] path = <<"o">> ->
           [readable |-> TRUE, lines |-> << <<<<"0">>, <<"0">>, <<"0">>>> >>]
      [] path = <<"e">> ->
           [readable |-> TRUE, lines |-> << <<<<"#">>, <<"1">>>>, <<>> >>]
      [] path = <<"t">> ->
           [readable |-> TRUE,
            lines |-> << <<<<"1">>, <<"0">>, <<"0">>>>, <<<<"1">>, <<"2">>>> >>]
      [] path = <<"w">> ->
           [readable |-> TRUE, lines |-> << <<<<"1">>, <<"x">>, <<"0">>>> >>]
      [] path = <<"d">> ->
           [readable |-> TRUE, lines |-> << <<<<"p">>, <<"1">>, <<"2">>, <<"3">>>> >>]
      [] path = <<"l">> ->
           [readable |-> TRUE,
            lines |-> << <<<<"l">>, <<"0">>, <<"0">>, <<"0">>, <<"1">>, <<"1">>, <<"1">>>> >>]
      [] OTHER -> [readable |-> FALSE, lines |-> <<>>]

\* from_file keeping the points read before a bad line
GraphicsPointCloud_from_file_Partial(path) ==
    IF ~FileAt(path).readable THEN FileErr("No such file or directory (os error 2)")
    ELSE ParsedLines_Partial(FileAt(path).lines, 1, <<>>)

\* PointCloud::from_file, as the Result its callers use: the points or the
\* error (the callers drop the axes of the loaded cloud)
GraphicsPointCloud_from_file(path) ==
    IF ~FileAt(path).readable THEN FileErr("No such file or directory (os error 2)")
    ELSE ParsedLines(FileAt(path).lines, 1, <<>>)

----------------------------------------------------------------------------
(* CommandState and the key handling of run_application (main.rs). The      *)
(* buffer is a sequence of characters.                                      *)

None == [some |-> FALSE, text |-> ""]

Some(text) == [some |-> TRUE, text |-> text]

CommandState_new == [active |-> FALSE, buffer |-> <<>>, error_message |-> None]

CommandState_enter_command_mode(state) ==
    [state EXCEPT !.active = TRUE, !.buffer = <<>>, !.error_message = None]

CommandState_exit_command_mode(state) ==
    [state EXCEPT !.active = FALSE, !.buffer = <<>>]

CommandState_add_char(state, c) == [state EXCEPT !.buffer = Append(@, c)]

CommandState_backspace(state) ==
    [state EXCEPT !.buffer = IF Len(@) = 0 THEN @ ELSE SubSeq(@, 1, Len(@) - 1)]

RECURSIVE TrimStart(_)
TrimStart(s) == IF Len(s) > 0 /\ s[1] = " " THEN TrimStart(Tail(s)) ELSE s

RECURSIVE TrimEnd(_)
TrimEnd(s) == IF Len(s) > 0 /\ s[Len(s)] = " " THEN TrimEnd(SubSeq(s, 1, Len(s) - 1)) ELSE s

\* str::trim
Trim(s) == TrimEnd(TrimStart(s))

LoadPrefix == <<"l", "o", "a", "d", " ">>

\* command.starts_with("load ")
IsLoad(command) == Len(command) >= 5 /\ SubSeq(command, 1, 5) = LoadPrefix

\* command.strip_prefix("load ").unwrap().trim()
LoadPath(command) == Trim(SubSeq(command, 6, Len(command)))

\* format!("Failed to load: {}", e)
FailedToLoad(e) ==
    CASE e = "Invalid line format" -> "Failed to load: Invalid line format"
      [] e = "invalid float literal" -> "Failed to load: invalid float literal"
      [] OTHER -> "Failed to load: No such file or directory (os error 2)"

\* the result of a command: the state, the cloud, and the Result of from_file
Executed(state, cloud, loaded) == [state |-> state, cloud |-> cloud, loaded |-> loaded]

NotLoaded == FileErr("none")

\* the load branch, for the Result of from_file
ExecuteLoad(state, cloud, new_cloud) ==
    IF new_cloud.ok /\ Len(new_cloud.points) = 0
    THEN Executed([state EXCEPT !.error_message = Some("No points found in file")],
                  cloud, new_cloud)
    ELSE IF new_cloud.ok
    THEN Executed(CommandState_exit_command_mode(state),
                  GraphicsPointCloud(cloud.points \o new_cloud.points), new_cloud)
    ELSE Executed([state EXCEPT !.error_message = Some(FailedToLoad(new_cloud.error))],
                  cloud, new_cloud)

\* execute_command without the regeneration of the axes on clear
ExecuteCommand_StaleAxes(state, cloud, command) ==
    IF IsLoad(command)
    THEN ExecuteLoad(state, cloud, GraphicsPointCloud_from_file(LoadPath(command)))
    ELSE IF command = <<"c", "l", "e", "a", "r">>
    THEN Executed(CommandState_exit_command_mode(state),
                  [cloud EXCEPT !.points = <<>>], NotLoaded)
    ELSE IF Len(command) # 0
    THEN Executed([state EXCEPT !.error_message = Some("Unknown command")], cloud, NotLoaded)
    ELSE Executed(state, cloud, NotLoaded)

ExecuteCommand(state, cloud, command) ==
    IF IsLoad(command)
    THEN ExecuteLoad(state, cloud, GraphicsPointCloud_from_file(LoadPath(command)))
    ELSE IF command = <<"c", "l", "e", "a", "r">>
    THEN Executed(CommandState_exit_command_mode(state), GraphicsPointCloud(<<>>), NotLoaded)
    ELSE IF Len(command) # 0
    THEN Executed([state EXCEPT !.error_message = Some("Unknown command")], cloud, NotLoaded)
    ELSE Executed(state, cloud, NotLoaded)

CommandState_execute_command(state, cloud) == ExecuteCommand(state, cloud, Trim(state.buffer))

\* get_display_text: the error, or the buffer being typed
CommandState_get_display_text(state) ==
    IF state.error_message.some
    THEN [kind |-> "ERROR", text |-> state.error_message.text, buffer |-> <<>>]
    ELSE [kind |-> "Command", text |-> "", buffer |-> state.buffer]

\* the status message of a frame
StatusMessage(state) ==
    IF state.active \/ state.error_message.some
    THEN CommandState_get_display_text(state)
    ELSE [kind |-> "points", text |-> "", buffer |-> <<>>]

\* load_multiple_files: the combined cloud, or the error that closes the program
RECURSIVE CombinedPoints(_, _, _)
CombinedPoints(file_paths, i, combined_points) ==
    IF i > Len(file_paths) THEN FileOk(combined_points)
    ELSE IF ~GraphicsPointCloud_from_file(file_paths[i]).ok
    THEN GraphicsPointCloud_from_file(file_paths[i])
    ELSE CombinedPoints(file_paths, i + 1,
                        combined_points \o GraphicsPointCloud_from_file(file_paths[i]).points)

NoneEmpty(combined) ==
    IF combined.ok /\ Len(combined.points) = 0
    THEN FileErr("No points found in any of the provided files")
    ELSE combined

load_multiple_files(file_paths) == NoneEmpty(CombinedPoints(file_paths, 1, <<>>))

----------------------------------------------------------------------------
(* Specification SpecCommand: a session of the viewer under its keys. The   *)
(* user types one of CommandTexts, character by character, with backspace,  *)
(* Enter and Esc at any point. viewer is [running, command, cloud]; out is  *)
(* the Result of the last from_file.                                        *)

\* the most points a cloud holds: a load beyond it is not tried
MaxCloudPoints == 3

CommandTexts ==
    { <<"l", "o", "a", "d", " ", f>> : f \in {"a", "b", "o", "e", "t", "w", "d", "l", "m"} }
    \cup { <<"l", "o", "a", "d", " ", " ", "b", " ">>,
           <<"c", "l", "e", "a", "r", " ">>,
           <<" ", "c", "l", "e", "a", "r">>,
           <<"c", "l", "e", "a", "n">>,
           <<"x">> }

CharInputs == {"l", "o", "a", "d", " ", "c", "e", "r", "b", "t", "w", "m", "n", "x"}

StartInputs == { <<<<"a">>>>, <<<<"b">>>>, <<<<"e">>, <<"b">>>>, <<<<"o">>, <<"b">>>>,
                 <<<<"e">>>>, <<<<"b">>, <<"d">>>> }

IsPrefix(s, text) == Len(s) <= Len(text) /\ SubSeq(text, 1, Len(s)) = s

CmIdle == UNCHANGED <<db, offered, cam, proj, ascii, image, steps>>

\* run_application up to the main loop, once the session before it has
\* closed: the files of the command line are loaded
CmStart(file_paths) ==
    /\ ~viewer.running
    /\ \E loaded \in {load_multiple_files(file_paths)} :
          /\ viewer' = [running |-> loaded.ok,
                        command |-> CommandState_new,
                        cloud |-> GraphicsPointCloud(loaded.points)]
          /\ out' = loaded
          /\ last' = [op |-> "run_application", ok |-> loaded.ok, args |-> <<file_paths>>]
    /\ CmIdle

\* '/' in normal mode
CmKeySlash ==
    /\ viewer.running
    /\ ~viewer.command.active
    /\ viewer' = [viewer EXCEPT !.command = CommandState_enter_command_mode(@)]
    /\ last' = [op |-> "enter_command_mode", ok |-> TRUE, args |-> <<>>]
    /\ UNCHANGED out
    /\ CmIdle

\* Ctrl+C in normal mode: graceful_close
CmKeyCtrlC ==
    /\ viewer.running
    /\ ~viewer.command.active
    /\ viewer' = [viewer EXCEPT !.running = FALSE]
    /\ last' = [op |-> "graceful_close", ok |-> TRUE, args |-> <<>>]
    /\ UNCHANGED out
    /\ CmIdle

\* any other key in normal mode
CmKeyIgnored ==
    /\ viewer.running
    /\ ~viewer.command.active
    /\ last' = [op |-> "key ignored", ok |-> TRUE, args |-> <<>>]
    /\ UNCHANGED <<viewer, out>>
    /\ CmIdle

CmKeyEsc ==
    /\ viewer.running
    /\ viewer.command.active
    /\ viewer' = [viewer EXCEPT !.command = CommandState_exit_command_mode(@)]
    /\ last' = [op |-> "exit_command_mode", ok |-> TRUE, args |-> <<>>]
    /\ UNCHANGED out
    /\ CmIdle

CmKeyEnter ==
    /\ viewer.running
    /\ viewer.command.active
    /\ \E done \in {CommandState_execute_command(viewer.command, viewer.cloud)} :
          /\ Len(done.cloud.points) <= MaxCloudPoints
          /\ viewer' = [viewer EXCEPT !.command = done.state, !.cloud = done.cloud]
          /\ out' = done.loaded
    /\ last' = [op |-> "execute_command", ok |-> TRUE, args |-> <<viewer.command.buffer>>]
    /\ CmIdle

CmKeyBackspace ==
    /\ viewer.running
    /\ viewer.command.active
    /\ viewer' = [viewer EXCEPT !.command = CommandState_backspace(@)]
    /\ last' = [op |-> "backspace", ok |-> TRUE, args |-> <<>>]
    /\ UNCHANGED out
    /\ CmIdle

CmKeyChar(c) ==
    /\ viewer.running
    /\ viewer.command.active
    /\ \E text \in CommandTexts : IsPrefix(Append(viewer.command.buffer, c), text)
    /\ viewer' = [viewer EXCEPT !.command = CommandState_add_char(@, c)]
    /\ last' = [op |-> "add_char", ok |-> TRUE, args |-> <<c>>]
    /\ UNCHANGED out
    /\ CmIdle

NextCommand ==
    \/ \E file_paths \in StartInputs : CmStart(file_paths)
    \/ CmKeySlash
    \/ CmKeyCtrlC
    \/ CmKeyIgnored
    \/ CmKeyEsc
    \/ CmKeyEnter
    \/ CmKeyBackspace
    \/ \E c \in CharInputs : CmKeyChar(c)

SpecCommandInit ==
    /\ viewer = [running |-> TRUE, command |-> CommandState_new,
                 cloud |-> GraphicsPointCloud(load_multiple_files(<<<<"a">>>>).points)]
    /\ out = load_multiple_files(<<<<"a">>>>)
    /\ last = NoLast
    /\ ascii = NoRenderer
    /\ image = NoRenderer
    /\ cam = Camera_new
    /\ db = NoDb
    /\ offered = NoOffered
    /\ proj = NoProj
    /\ steps = 0

SpecCommand == SpecCommandInit /\ [][NextCommand]_vars

\* the command a key press of Enter executed
EnteredCommand(l) == Trim(l.args[1])

ClearCommand == <<"c", "l", "e", "a", "r">>

\* a line of three numbers
IsPointLine(line) ==
    Len(line) = 3 /\ ParseF32(line[1]).ok /\ ParseF32(line[2]).ok /\ ParseF32(line[3]).ok

\* a file that can be loaded: readable, every line empty, a comment or a
\* point, and at least one point
FileLoads(file) ==
    /\ file.readable
    /\ \A i \in 1..Len(file.lines) : LineSkipped(file.lines[i]) \/ IsPointLine(file.lines[i])
    /\ \E i \in 1..Len(file.lines) : ~LineSkipped(file.lines[i])

\* the axes of a cloud without points: from the origin to distance 1.0
UnitAxisLines == << <<V3(0, 0, 0), V3(1, 0, 0)>>, <<V3(0, 0, 0), V3(0, 1, 0)>>,
                    <<V3(0, 0, 0), V3(0, 0, 1)>> >>

AxesCurrent(cloud) == cloud.axes = GraphicsPointCloud_generate_axes(cloud.points)

LoadAndClearStep ==
    /\ (/\ last'.op = "execute_command"
        /\ IsLoad(EnteredCommand(last'))
        /\ FileLoads(FileAt(LoadPath(EnteredCommand(last')))))
       => /\ viewer'.cloud.points =
                viewer.cloud.points
                \o GraphicsPointCloud_from_file(LoadPath(EnteredCommand(last'))).points
          /\ Len(viewer'.cloud.points) > Len(viewer.cloud.points)
          /\ AxesCurrent(viewer'.cloud)
          /\ ~viewer'.command.active
    /\ (last'.op = "execute_command" /\ EnteredCommand(last') = ClearCommand)
       => /\ viewer'.cloud.points = <<>>
          /\ [k \in 1..3 |-> viewer'.cloud.axes[k].axis_line] = UnitAxisLines
          /\ AxesCurrent(viewer'.cloud)
          /\ ~viewer'.command.active

\* C23: a successful load leaves the previous points followed by the
\* file's points in file order and the axes of the combined points; clear
\* leaves no points and the axes of zero points (length 1.0); both leave
\* command mode; the axes always equal the axes generated from the points.
C23_LoadAndClear == []AxesCurrent(viewer.cloud) /\ [][LoadAndClearStep]_vars

\* a file was loaded onto a cloud that already held points
C23_Witness ==
    /\ last.op = "execute_command"
    /\ IsLoad(EnteredCommand(last))
    /\ out.ok
    /\ Len(viewer.cloud.points) > Len(out.points)
    /\ ~viewer.command.active

\* a command that cannot be carried out: an unknown name, or a load of a
\* file that is unreadable, has a malformed line or holds no points
FailingCommand(command) ==
    IF IsLoad(command) THEN ~FileLoads(FileAt(LoadPath(command)))
    ELSE Len(command) # 0 /\ command # ClearCommand

\* C24: a command that cannot be carried out records an error message the
\* status line displays, leaves the points and axes as they were, keeps the
\* session running and keeps command mode active.
C24_FailedCommandKeepsCloud ==
    [][ (last'.op = "execute_command" /\ FailingCommand(EnteredCommand(last')))
        => /\ viewer'.command.error_message.some
           /\ StatusMessage(viewer'.command).kind = "ERROR"
           /\ StatusMessage(viewer'.command).text = viewer'.command.error_message.text
           /\ viewer'.cloud = viewer.cloud
           /\ viewer'.running
           /\ viewer'.command.active
      ]_vars

\* the load of the file with a malformed line after a good one failed
C24_Witness ==
    /\ last.op = "execute_command"
    /\ EnteredCommand(last) = <<"l", "o", "a", "d", " ", "t">>
    /\ viewer.command.error_message = Some("Failed to load: Invalid line format")
    /\ viewer.command.active
    /\ Len(viewer.cloud.points) > 0

\* a line the file format names: empty, a comment, `x y z`, `p x y z`,
\* `l x1 y1 z1 x2 y2 z2`
RecognisedLine(line) ==
    \/ LineSkipped(line)
    \/ IsPointLine(line)
    \/ Len(line) = 4 /\ line[1] = <<"p">> /\ IsPointLine(SubSeq(line, 2, 4))
    \/ Len(line) = 7 /\ line[1] = <<"l">> /\ IsPointLine(SubSeq(line, 2, 4))
       /\ IsPointLine(SubSeq(line, 5, 7))

\* the point three tokens give
PointOf(tokens) ==
    Graphics_Point3D(ParseF32(tokens[1]).value, ParseF32(tokens[3]).value,
                     ParseF32(tokens[2]).value)

\* the points a recognised line asks for are among the points loaded
LinePointsLoaded(line, points) ==
    /\ (~LineSkipped(line) /\ Len(line) = 3) => \E k \in 1..Len(points) : points[k] = PointOf(line)
    /\ (~LineSkipped(line) /\ Len(line) = 4)
       => \E k \in 1..Len(points) : points[k] = PointOf(SubSeq(line, 2, 4))
    /\ (~LineSkipped(line) /\ Len(line) = 7)
       => /\ \E k \in 1..Len(points) : points[k] = PointOf(SubSeq(line, 2, 4))
          /\ \E k \in 1..Len(points) : points[k] = PointOf(SubSeq(line, 5, 7))

\* C25: the loader skips empty lines and comments, loads each `x y z` line
\* as a point, and recognises `p x y z` as a point and `l x1 y1 z1 x2 y2 z2`
\* as a line expanded into points, instead of rejecting those lines.
C25_LoaderFormats ==
    (last.op = "execute_command" /\ IsLoad(EnteredCommand(last)))
    => \A file \in {FileAt(LoadPath(EnteredCommand(last)))} :
          (file.readable /\ \A i \in 1..Len(file.lines) : RecognisedLine(file.lines[i]))
          => /\ out.ok
             /\ \A i \in 1..Len(file.lines) : LinePointsLoaded(file.lines[i], out.points)

\* C30: a recorded command error does not outlive its command: whenever
\* command mode is inactive (after ESC, or after a later successful load or
\* clear) no error message is recorded and the status line shows the
\* normal status.
C30_ErrorDoesNotOutlive ==
    ~viewer.command.active
    => /\ ~viewer.command.error_message.some
       /\ StatusMessage(viewer.command).kind = "points"

====
